---- MODULE Spec2Model ----
(***************************************************************************)
(* A model of src/src/timesheet_service.py: the week calculation of the    *)
(* time sheet calculator (TimeSheetService.calculate_week and the helpers  *)
(* it calls).                                                              *)
(*                                                                         *)
(* Representation.  A Python str that the code inspects character by       *)
(* character (time fields, lunch fields, day names, dictionary keys,       *)
(* display strings) is a sequence of one-character strings.  A message     *)
(* built by an f-string f"{day_name}: <text>" is the record                *)
(* [day |-> day_name, text |-> "<text>"]; a message literal that starts    *)
(* with "Friday: " is the same record with day = the literal "Friday".     *)
(* A float that holds hours is the integer number of hundredths of an hour *)
(* (every such float is the result of round(x, 2)).  An Optional value is  *)
(* a sequence of at most one element: None is <<>> and a value v that is   *)
(* present is <<v>>.                                                       *)
(***************************************************************************)
EXTENDS Integers, Sequences, FiniteSets, TLC

None == <<>>

Some(v) == <<v>>

IsNone(o) == o = <<>>

\* The value of an Optional that is present.
The(o) == o[1]

(***************************************************************************)
(* Characters and the str methods the code uses.                           *)
(***************************************************************************)
Digit == {"0", "1", "2", "3", "4", "5", "6", "7", "8", "9"}

DigitValue(c) ==
    CASE c = "0" -> 0 [] c = "1" -> 1 [] c = "2" -> 2 [] c = "3" -> 3
      [] c = "4" -> 4 [] c = "5" -> 5 [] c = "6" -> 6 [] c = "7" -> 7
      [] c = "8" -> 8 [] c = "9" -> 9

DigitChar(d) ==
    CASE d = 0 -> "0" [] d = 1 -> "1" [] d = 2 -> "2" [] d = 3 -> "3"
      [] d = 4 -> "4" [] d = 5 -> "5" [] d = 6 -> "6" [] d = 7 -> "7"
      [] d = 8 -> "8" [] d = 9 -> "9"

UpperLetters ==
    <<"A", "B", "C", "D", "E", "F", "G", "H", "I", "J", "K", "L", "M",
      "N", "O", "P", "Q", "R", "S", "T", "U", "V", "W", "X", "Y", "Z">>

LowerLetters ==
    <<"a", "b", "c", "d", "e", "f", "g", "h", "i", "j", "k", "l", "m",
      "n", "o", "p", "q", "r", "s", "t", "u", "v", "w", "x", "y", "z">>

\* str.lower() on one character.
LowerChar(c) ==
    IF \E i \in 1..26 : UpperLetters[i] = c
    THEN LowerLetters[CHOOSE i \in 1..26 : UpperLetters[i] = c]
    ELSE c

\* str.lower()
Lower(s) == [i \in 1..Len(s) |-> LowerChar(s[i])]

\* The whitespace str.strip() removes and \s matches (the model's strings
\* hold the space as their only whitespace character).
IsSpace(c) == c = " "

RECURSIVE LStrip(_)
LStrip(s) == IF s # <<>> /\ IsSpace(Head(s)) THEN LStrip(Tail(s)) ELSE s

RECURSIVE RStrip(_)
RStrip(s) ==
    IF s # <<>> /\ IsSpace(s[Len(s)]) THEN RStrip(SubSeq(s, 1, Len(s) - 1)) ELSE s

\* str.strip()
Strip(s) == RStrip(LStrip(s))

\* The value of a run of decimal digits; underscores (which int() allows
\* between digits) carry no value.
RECURSIVE DigitsValue(_, _)
DigitsValue(s, acc) ==
    IF s = <<>> THEN acc
    ELSE IF Head(s) = "_" THEN DigitsValue(Tail(s), acc)
    ELSE DigitsValue(Tail(s), 10 * acc + DigitValue(Head(s)))

\* Whether body is a run of decimal digits, single underscores allowed
\* between digits: what int() accepts after the sign.
IsIntBody(body) ==
    /\ Len(body) > 0
    /\ body[1] \in Digit
    /\ body[Len(body)] \in Digit
    /\ \A i \in 1..Len(body) : body[i] \in Digit \cup {"_"}
    /\ \A i \in 1..(Len(body) - 1) : ~(body[i] = "_" /\ body[i + 1] = "_")

IntResult(negative, body) ==
    IF ~IsIntBody(body) THEN [raises |-> Some("ValueError"), value |-> None]
    ELSE [raises |-> None,
          value |-> Some(IF negative THEN 0 - DigitsValue(body, 0) ELSE DigitsValue(body, 0))]

IntOfStripped(t) ==
    IF t # <<>> /\ Head(t) \in {"+", "-"}
    THEN IntResult(Head(t) = "-", Tail(t))
    ELSE IntResult(FALSE, t)

\* int(s) for a str: surrounding whitespace, an optional sign, then decimal
\* digits.  Anything else raises ValueError.
IntOf(s) == IntOfStripped(Strip(s))

\* The decimal digits of a natural number (str(n), as an f-string prints it).
RECURSIVE NatToStr(_)
NatToStr(n) ==
    IF n < 10 THEN <<DigitChar(n)>>
    ELSE Append(NatToStr(n \div 10), DigitChar(n % 10))

(***************************************************************************)
(* Time utilities.                                                         *)
(***************************************************************************)

\* f"{display_hour}:{minute:02d} {period}"
DisplayOf(hour, minute) ==
    NatToStr(IF hour % 12 = 0 THEN 12 ELSE hour % 12) \o <<":">>
      \o <<DigitChar(minute \div 10), DigitChar(minute % 10)>>
      \o <<" ">> \o (IF hour < 12 THEN <<"A", "M">> ELSE <<"P", "M">>)

\* A variant that does not wrap the hour at the end of the day.
minutes_to_display_unwrapped(minutes) == DisplayOf(minutes \div 60, minutes % 60)

\* _minutes_to_display
minutes_to_display(minutes) == DisplayOf((minutes \div 60) % 24, minutes % 60)

\* The period markers the pattern's last group accepts.
PeriodMarkers == {<<"a">>, <<"p">>, <<"a", "m">>, <<"p", "m">>}

\* The ways to split the leading digits between the hour group \d{1,2} and
\* the minute group \d{0,2}, in the order the backtracking search tries
\* them: both groups are greedy.
SplitOrder == << <<2, 2>>, <<2, 1>>, <<2, 0>>, <<1, 2>>, <<1, 1>>, <<1, 0>> >>

\* :? takes the colon after an hour of hl digits whenever there is one.
ColonAt(raw, hl) == IF hl < Len(raw) /\ raw[hl + 1] = ":" THEN 1 ELSE 0

\* What is left for \s*(a|p|am|pm)?$ once \s* took the whitespace.
PeriodAt(raw, hl, ml) == LStrip(SubSeq(raw, hl + ColonAt(raw, hl) + ml + 1, Len(raw)))

\* Whether the pattern matches raw with hl hour digits and ml minute digits.
Fits(raw, hl, ml) ==
    /\ hl + ColonAt(raw, hl) + ml <= Len(raw)
    /\ \A i \in 1..hl : raw[i] \in Digit
    /\ \A i \in (hl + ColonAt(raw, hl) + 1)..(hl + ColonAt(raw, hl) + ml) : raw[i] \in Digit
    /\ PeriodAt(raw, hl, ml) \in PeriodMarkers \cup {<<>>}

Groups(raw, hl, ml) ==
    [hour |-> SubSeq(raw, 1, hl),
     minute |-> SubSeq(raw, hl + ColonAt(raw, hl) + 1, hl + ColonAt(raw, hl) + ml),
     period |-> PeriodAt(raw, hl, ml)]

FirstSplit(raw, found) ==
    IF found = {} THEN None
    ELSE Some(Groups(raw, SplitOrder[CHOOSE x \in found : \A y \in found : x <= y][1],
                     SplitOrder[CHOOSE x \in found : \A y \in found : x <= y][2]))

\* re.match(r"^(\d{1,2})(?::?(\d{0,2}))?\s*(a|p|am|pm)?$", raw): the groups
\* of the first match the search finds, or None.
TimePatternMatch(raw) ==
    FirstSplit(raw, {k \in 1..6 : Fits(raw, SplitOrder[k][1], SplitOrder[k][2])})

ParseFailed == [minutes |-> None, display |-> None, error |-> TRUE]

Parsed(minutes) ==
    [minutes |-> Some(minutes), display |-> Some(minutes_to_display(minutes)),
     error |-> FALSE]

\* "a" and "p" stand for "am" and "pm".
FullPeriod(period) ==
    IF period = <<"a">> THEN <<"a", "m">>
    ELSE IF period = <<"p">> THEN <<"p", "m">>
    ELSE period

\* A variant that leaves a marked hour 12 as it is.
ResolveHourTwelveKept(hour, period, assume_am) ==
    IF period # <<>>
    THEN hour + (IF period = <<"p", "m">> /\ hour # 12 THEN 12 ELSE 0)
    ELSE IF hour <= 12
         THEN IF assume_am
              THEN (IF hour = 12 THEN 0 ELSE hour)
              ELSE (IF hour # 12 THEN hour + 12 ELSE hour)
         ELSE hour

\* The hour of the day: with a period marker 12 becomes 0 and pm adds 12;
\* without one, hours up to 12 follow assume_am and 13 to 23 are taken as
\* they are.
ResolveHour(hour, period, assume_am) ==
    IF period # <<>>
    THEN (IF hour = 12 THEN 0 ELSE hour) + (IF period = <<"p", "m">> THEN 12 ELSE 0)
    ELSE IF hour <= 12
         THEN IF assume_am
              THEN (IF hour = 12 THEN 0 ELSE hour)
              ELSE (IF hour # 12 THEN hour + 12 ELSE hour)
         ELSE hour

ResolveTime(hour, minute, period, assume_am) ==
    IF hour > 23 \/ minute > 59 THEN ParseFailed
    ELSE Parsed(ResolveHour(hour, period, assume_am) * 60 + minute)

ResolveMatch(found, assume_am) ==
    IF IsNone(found) THEN ParseFailed
    ELSE ResolveTime(DigitsValue(The(found).hour, 0), DigitsValue(The(found).minute, 0),
                     FullPeriod(The(found).period), assume_am)

\* _parse_time: minutes since midnight, the display string, the error flag.
parse_time(raw, assume_am) ==
    IF raw = <<>> THEN ParseFailed
    ELSE ResolveMatch(TimePatternMatch(Strip(Lower(raw))), assume_am)

\* A variant that rounds down.
RoundDown(n, d) == n \div d

\* Python's round(n / d) for integers n and d > 0: the nearest integer, a
\* tie going to the even one.
RoundHalfEven(n, d) ==
    IF 2 * (n % d) < d THEN n \div d
    ELSE IF 2 * (n % d) > d THEN (n \div d) + 1
    ELSE IF (n \div d) % 2 = 0 THEN n \div d ELSE (n \div d) + 1

\* _round_to_quarter(num / den), in hundredths of an hour:
\* round(value * 4) is a whole number of quarter hours q; q / 4 is exact in
\* binary floating point and round(q / 4, 2) leaves it as it is, 25 * q
\* hundredths.
round_to_quarter(num, den) == 25 * RoundHalfEven(4 * num, den)

(***************************************************************************)
(* Messages and dictionary keys.                                           *)
(***************************************************************************)

\* f"{day_name}: {text}"
Msg(day_name, text) == [day |-> day_name, text |-> text]

\* A message literal that names no day.
Literal(text) == [day |-> <<>>, text |-> text]

\* f"{day_name}_start", f"{day_name}_end", f"{day_name}_lunch"
StartKey(day_name) == day_name \o <<"_", "s", "t", "a", "r", "t">>

EndKey(day_name) == day_name \o <<"_", "e", "n", "d">>

LunchKey(day_name) == day_name \o <<"_", "l", "u", "n", "c", "h">>

\* An empty dict; d.update(e) is e @@ d.
EmptyDict == <<>>

\* lunch_minutes < 0 raises ValueError as a failed int() does.
LunchRejected(parsed) == ~IsNone(parsed.raises) \/ The(parsed.value) < 0

\* The try block around int(lunch_raw): whether its except ValueError
\* handler runs.
LunchInvalid(lunch_raw) == LunchRejected(IntOf(lunch_raw))

\* lunch_minutes, once the try block has passed.
LunchValue(lunch_raw) == The(IntOf(lunch_raw).value)

\* day.day_name.lower() == "friday"
IsFriday(day_name) == Lower(day_name) = <<"f", "r", "i", "d", "a", "y">>

(***************************************************************************)
(* Day processing: _process_day returns (minutes, errors, warnings,        *)
(* normalized, field_errors).                                              *)
(***************************************************************************)
DayResult(minutes, errors, warnings, normalized, field_errors) ==
    [minutes |-> minutes, errors |-> errors, warnings |-> warnings,
     normalized |-> normalized, field_errors |-> field_errors]

\* A variant whose error line names no field.
InvalidLunchResultUntagged(day_name, normalized) ==
    DayResult(None, <<Msg(day_name, "invalid lunch duration")>>, <<>>, normalized,
              EmptyDict)

InvalidLunchResult(day_name, normalized) ==
    DayResult(None, <<Msg(day_name, "invalid lunch duration")>>, <<>>, normalized,
              LunchKey(day_name) :> "Invalid lunch duration")

\* if display: normalized[key] = display
NormalizedEntry(key, display) ==
    IF ~IsNone(display) /\ The(display) # <<>> THEN key :> The(display) ELSE EmptyDict

\* A variant that takes the entered lunch off the assumed day.
AssumedDayLessLunch(day_name, lunch_raw, assumption, normalized) ==
    IF lunch_raw # <<>> /\ LunchInvalid(lunch_raw)
    THEN InvalidLunchResult(day_name, normalized)
    ELSE DayResult(Some(assumption - (IF lunch_raw = <<>> THEN 0 ELSE LunchValue(lunch_raw))),
                   <<>>, <<>>, normalized, EmptyDict)

\* The lunch of a day that is taken as a full day: checked when present,
\* and not subtracted.
AssumedDay(day_name, lunch_raw, assumption, normalized) ==
    IF lunch_raw # <<>> /\ LunchInvalid(lunch_raw)
    THEN InvalidLunchResult(day_name, normalized)
    ELSE DayResult(Some(assumption), <<>>, <<>>, normalized, EmptyDict)

\* A variant that does not look at the lunch of a day left blank.
BothBlankDayUnchecked(day_name, lunch_raw, assumption) ==
    DayResult(Some(assumption), <<>>, <<>>, EmptyDict, EmptyDict)

\* not has_start and not has_end
BothBlankDay(day_name, lunch_raw, assumption) ==
    AssumedDay(day_name, lunch_raw, assumption, EmptyDict)

InvalidStartResult(day_name, normalized) ==
    DayResult(None, <<Msg(day_name, "invalid start time")>>, <<>>, normalized,
              StartKey(day_name) :> "Invalid start time")

InvalidEndResult(day_name, normalized) ==
    DayResult(None, <<Msg(day_name, "invalid end time")>>, <<>>, normalized,
              EndKey(day_name) :> "Invalid end time")

StartOnlyParsed(day_name, start, lunch_raw, assumption) ==
    IF start.error
    THEN InvalidStartResult(day_name, NormalizedEntry(StartKey(day_name), start.display))
    ELSE AssumedDay(day_name, lunch_raw, assumption,
                    NormalizedEntry(StartKey(day_name), start.display))

\* has_start and not has_end, on a day that is not Friday
StartOnlyDay(day_name, start_raw, lunch_raw, assumption) ==
    StartOnlyParsed(day_name, parse_time(start_raw, TRUE), lunch_raw, assumption)

\* A variant that leaves the lunch of a Friday partial entry unchecked.
FridayPartialLunchUnchecked(day_name, lunch_raw, normalized) ==
    IF lunch_raw = <<>>
    THEN DayResult(None, <<>>, <<Msg(day_name, "lunch assumed to be 60 minutes")>>,
                   normalized, EmptyDict)
    ELSE DayResult(None, <<>>, <<>>, normalized, EmptyDict)

\* Lunch handling for Friday partial entry; no minutes are returned.
FridayPartialLunch(day_name, lunch_raw, normalized) ==
    IF lunch_raw = <<>>
    THEN DayResult(None, <<>>, <<Msg(day_name, "lunch assumed to be 60 minutes")>>,
                   normalized, EmptyDict)
    ELSE IF LunchInvalid(lunch_raw)
    THEN InvalidLunchResult(day_name, normalized)
    ELSE DayResult(None, <<>>, <<>>, normalized, EmptyDict)

FridayStartOnlyParsed(day_name, start, lunch_raw) ==
    IF start.error
    THEN InvalidStartResult(day_name, NormalizedEntry(StartKey(day_name), start.display))
    ELSE FridayPartialLunch(day_name, lunch_raw,
                            NormalizedEntry(StartKey(day_name), start.display))

\* A variant that treats a Friday partial entry as that of any other day.
FridayStartOnlyDayAsOthers(day_name, start_raw, lunch_raw) ==
    StartOnlyDay(day_name, start_raw, lunch_raw, 8 * 60)

\* has_start and not has_end, on Friday
FridayStartOnlyDay(day_name, start_raw, lunch_raw) ==
    FridayStartOnlyParsed(day_name, parse_time(start_raw, TRUE), lunch_raw)

EndOnlyParsed(day_name, end, lunch_raw, assumption) ==
    IF end.error
    THEN InvalidEndResult(day_name, NormalizedEntry(EndKey(day_name), end.display))
    ELSE AssumedDay(day_name, lunch_raw, assumption,
                    NormalizedEntry(EndKey(day_name), end.display))

\* not has_start and has_end
EndOnlyDay(day_name, end_raw, lunch_raw, assumption) ==
    EndOnlyParsed(day_name, parse_time(end_raw, FALSE), lunch_raw, assumption)

\* A variant that reports the end only when the start is valid (elif).
TimeErrorsFirstOnly(day_name, start_error, end_error, normalized) ==
    IF start_error
    THEN DayResult(None, <<Msg(day_name, "invalid start time")>>, <<>>, normalized,
                   StartKey(day_name) :> "Invalid start time")
    ELSE DayResult(None, <<Msg(day_name, "invalid end time")>>, <<>>, normalized,
                   EndKey(day_name) :> "Invalid end time")

\* One error line and one field_errors entry for each time that failed.
TimeErrors(day_name, start_error, end_error, normalized) ==
    DayResult(None,
              (IF start_error THEN <<Msg(day_name, "invalid start time")>> ELSE <<>>)
                \o (IF end_error THEN <<Msg(day_name, "invalid end time")>> ELSE <<>>),
              <<>>, normalized,
              (IF end_error THEN EndKey(day_name) :> "Invalid end time" ELSE EmptyDict)
                @@ (IF start_error THEN StartKey(day_name) :> "Invalid start time"
                    ELSE EmptyDict))

\* A variant that subtracts the lunch however long it is.
WorkedUnchecked(day_name, duration_minutes, lunch_minutes, warnings, normalized) ==
    DayResult(Some(duration_minutes - lunch_minutes), <<>>, warnings, normalized, EmptyDict)

\* worked_minutes = duration_minutes - lunch_minutes, unless lunch is longer
Worked(day_name, duration_minutes, lunch_minutes, warnings, normalized) ==
    IF lunch_minutes > duration_minutes
    THEN DayResult(None, <<Msg(day_name, "lunch exceeds shift length")>>, warnings,
                   normalized, LunchKey(day_name) :> "Lunch exceeds shift length")
    ELSE DayResult(Some(duration_minutes - lunch_minutes), <<>>, warnings, normalized,
                   EmptyDict)

\* A variant that takes a blank lunch as no lunch and says nothing.
ShiftSilent(day_name, duration_minutes, lunch_raw, normalized) ==
    IF lunch_raw = <<>>
    THEN Worked(day_name, duration_minutes, 0, <<>>, normalized)
    ELSE IF LunchInvalid(lunch_raw)
    THEN InvalidLunchResult(day_name, normalized)
    ELSE Worked(day_name, duration_minutes, LunchValue(lunch_raw), <<>>, normalized)

\* Lunch handling of a day with both times
Shift(day_name, duration_minutes, lunch_raw, normalized) ==
    IF lunch_raw = <<>>
    THEN Worked(day_name, duration_minutes, 60,
                <<Msg(day_name, "lunch assumed to be 60 minutes")>>, normalized)
    ELSE IF LunchInvalid(lunch_raw)
    THEN InvalidLunchResult(day_name, normalized)
    ELSE Worked(day_name, duration_minutes, LunchValue(lunch_raw), <<>>, normalized)

\* A variant that lets a day end at the minute it starts.
FullDayCheckedStrict(day_name, start, end, lunch_raw, normalized) ==
    IF start.error \/ end.error
    THEN TimeErrors(day_name, start.error, end.error, normalized)
    ELSE IF The(end.minutes) < The(start.minutes)
    THEN DayResult(None, <<Msg(day_name, "end time is before start time")>>, <<>>,
                   normalized, EndKey(day_name) :> "End time before start time")
    ELSE Shift(day_name, The(end.minutes) - The(start.minutes), lunch_raw, normalized)

FullDayChecked(day_name, start, end, lunch_raw, normalized) ==
    IF start.error \/ end.error
    THEN TimeErrors(day_name, start.error, end.error, normalized)
    ELSE IF The(end.minutes) <= The(start.minutes)
    THEN DayResult(None, <<Msg(day_name, "end time is before start time")>>, <<>>,
                   normalized, EndKey(day_name) :> "End time before start time")
    ELSE Shift(day_name, The(end.minutes) - The(start.minutes), lunch_raw, normalized)

FullDayParsed(day_name, start, end, lunch_raw) ==
    FullDayChecked(day_name, start, end, lunch_raw,
                   NormalizedEntry(EndKey(day_name), end.display)
                     @@ NormalizedEntry(StartKey(day_name), start.display))

\* has_start and has_end
FullDay(day_name, start_raw, end_raw, lunch_raw) ==
    FullDayParsed(day_name, parse_time(start_raw, TRUE), parse_time(end_raw, FALSE),
                  lunch_raw)

\* The day-completeness cases of _process_day, on the stripped fields.
ProcessFields(day_name, start_raw, end_raw, lunch_raw, assumption) ==
    IF start_raw = <<>> /\ end_raw = <<>>
    THEN BothBlankDay(day_name, lunch_raw, assumption)
    ELSE IF start_raw # <<>> /\ end_raw = <<>>
    THEN IF ~IsFriday(day_name)
         THEN StartOnlyDay(day_name, start_raw, lunch_raw, assumption)
         ELSE FridayStartOnlyDay(day_name, start_raw, lunch_raw)
    ELSE IF start_raw = <<>> /\ end_raw # <<>>
    THEN EndOnlyDay(day_name, end_raw, lunch_raw, assumption)
    ELSE FullDay(day_name, start_raw, end_raw, lunch_raw)

\* _process_day
process_day(day, assumption) ==
    ProcessFields(day.day_name, Strip(day.start_time), Strip(day.end_time),
                  Strip(day.lunch_minutes), assumption)

(***************************************************************************)
(* Friday logic.  _calculate_friday_clock_out returns the clock-out string *)
(* or None, and appends to the warnings, successes and normalized it was   *)
(* handed.                                                                 *)
(***************************************************************************)

\* The literal "Friday" of the keys and messages the Friday logic writes.
FridayLiteral == <<"F", "r", "i", "d", "a", "y">>

\* The literal "8:00 AM" of the default Friday start.
EightAM == <<"8", ":", "0", "0", " ", "A", "M">>

\* A variant that compares the name with "Friday" as it is written.
FridayPlacesExact(days) == {i \in 1..Len(days) : days[i].day_name = FridayLiteral}

\* next(d for d in days if d.day_name.lower() == "friday"): the places of
\* the days the generator yields.
FridayPlaces(days) == {i \in 1..Len(days) : IsFriday(days[i].day_name)}

\* dict.get(key, default)
DictGet(dict, key, default) == IF key \in DOMAIN dict THEN dict[key] ELSE default

\* The three accumulators calculate_week hands to the Friday logic, which
\* appends to them in place.
Lists(warnings, successes, normalized) ==
    [warnings |-> warnings, successes |-> successes, normalized |-> normalized]

\* What _calculate_friday_clock_out raises or returns, and the accumulators
\* as it leaves them.
FridayOutcome(raises, value, lists) == [raises |-> raises, value |-> value, lists |-> lists]

\* A variant that appends the warning whether or not it is there.
AppendAgain(warnings, warning_text) == Append(warnings, warning_text)

\* if warning_text not in warnings: warnings.append(warning_text)
AppendOnce(warnings, warning_text) ==
    IF \E i \in 1..Len(warnings) : warnings[i] = warning_text
    THEN warnings
    ELSE Append(warnings, warning_text)

\* A variant that leaves Friday's lunch out of the remaining minutes.
ProjectedNoLunch(start_minutes, lunch_minutes, pre_friday_minutes, lists) ==
    FridayOutcome(None,
                  Some(minutes_to_display(start_minutes + ((40 * 60) - pre_friday_minutes))),
                  lists)

\* clock_out_minutes = start_minutes + (40 * 60) - pre_friday_minutes + lunch_minutes
Projected(start_minutes, lunch_minutes, pre_friday_minutes, lists) ==
    FridayOutcome(None,
                  Some(minutes_to_display(
                           start_minutes + ((40 * 60) - pre_friday_minutes + lunch_minutes))),
                  lists)

\* A variant that projects the clock-out whether or not an end was entered.
FridayEndParsedIgnored(end, start_minutes, lunch_minutes, pre_friday_minutes, lists) ==
    Projected(start_minutes, lunch_minutes, pre_friday_minutes, lists)

\* If Friday already has an end time that parses, return it.
FridayEndParsed(end, start_minutes, lunch_minutes, pre_friday_minutes, lists) ==
    IF ~end.error /\ ~IsNone(end.display) /\ The(end.display) # <<>>
    THEN FridayOutcome(None, end.display,
                       Lists(lists.warnings, lists.successes,
                             (EndKey(FridayLiteral) :> The(end.display)) @@ lists.normalized))
    ELSE Projected(start_minutes, lunch_minutes, pre_friday_minutes, lists)

FridayEnd(end_raw, start_minutes, lunch_minutes, pre_friday_minutes, lists) ==
    IF end_raw # <<>>
    THEN FridayEndParsed(parse_time(end_raw, FALSE), start_minutes, lunch_minutes,
                         pre_friday_minutes, lists)
    ELSE Projected(start_minutes, lunch_minutes, pre_friday_minutes, lists)

\* Friday's lunch: 60 with a warning when blank, None returned when invalid.
FridayLunch(lunch_raw, end_raw, start_minutes, pre_friday_minutes, lists) ==
    IF lunch_raw = <<>>
    THEN FridayEnd(end_raw, start_minutes, 60, pre_friday_minutes,
                   Lists(AppendOnce(lists.warnings,
                                    Msg(FridayLiteral, "lunch assumed to be 60 minutes")),
                         lists.successes, lists.normalized))
    ELSE IF LunchInvalid(lunch_raw)
    THEN FridayOutcome(None, None, lists)
    ELSE FridayEnd(end_raw, start_minutes, LunchValue(lunch_raw), pre_friday_minutes, lists)

\* A variant that falls back on 8:00 AM when the start does not parse.
FridayStartParsedLenient(start, lunch_raw, end_raw, pre_friday_minutes, lists) ==
    IF start.error
    THEN FridayLunch(lunch_raw, end_raw, 8 * 60, pre_friday_minutes, lists)
    ELSE FridayLunch(lunch_raw, end_raw, The(start.minutes), pre_friday_minutes,
                     Lists(lists.warnings, lists.successes,
                           (StartKey(FridayLiteral) :> The(start.display)) @@ lists.normalized))

FridayStartParsed(start, lunch_raw, end_raw, pre_friday_minutes, lists) ==
    IF start.error
    THEN FridayOutcome(None, None, lists)
    ELSE FridayLunch(lunch_raw, end_raw, The(start.minutes), pre_friday_minutes,
                     Lists(lists.warnings, lists.successes,
                           (StartKey(FridayLiteral) :> The(start.display)) @@ lists.normalized))

\* Friday's start: 8:00 AM with a warning when blank, None returned when
\* it does not parse.
FridayStart(start_raw, lunch_raw, end_raw, pre_friday_minutes, lists) ==
    IF start_raw = <<>>
    THEN FridayLunch(lunch_raw, end_raw, 8 * 60, pre_friday_minutes,
                     Lists(Append(lists.warnings,
                                  Literal("Friday start time assumed to be 8:00 AM")),
                           lists.successes,
                           (StartKey(FridayLiteral) :> EightAM) @@ lists.normalized))
    ELSE FridayStartParsed(parse_time(start_raw, TRUE), lunch_raw, end_raw,
                           pre_friday_minutes, lists)

\* _calculate_friday_clock_out, once friday is found
ClockOutOf(friday, pre_friday_minutes, lists) ==
    IF pre_friday_minutes >= 40 * 60
    THEN FridayOutcome(None,
                       Some(DictGet(lists.normalized, StartKey(FridayLiteral), EightAM)),
                       Lists(lists.warnings,
                             Append(lists.successes,
                                    Literal("40 hours reached before Friday this week")),
                             lists.normalized))
    ELSE FridayStart(Strip(friday.start_time), Strip(friday.lunch_minutes),
                     Strip(friday.end_time), pre_friday_minutes, lists)

FirstOf(places) == CHOOSE i \in places : \A j \in places : i <= j

\* _calculate_friday_clock_out (friday_minutes is passed and never read);
\* next() raises StopIteration when no day is Friday.
calculate_friday_clock_out(days, pre_friday_minutes, friday_minutes, lists) ==
    IF FridayPlaces(days) = {}
    THEN FridayOutcome(Some("StopIteration"), None, lists)
    ELSE ClockOutOf(days[FirstOf(FridayPlaces(days))], pre_friday_minutes, lists)

(***************************************************************************)
(* The week.                                                               *)
(***************************************************************************)

\* A variant that stops collecting at the first day that errors.
ExtendErrorsFailFast(errors, day_errors) ==
    IF errors # <<>> THEN errors ELSE errors \o day_errors

\* errors.extend(day_errors)
ExtendErrors(errors, day_errors) == errors \o day_errors

\* One turn of the first pass: the accumulators take what the day returned.
Accumulate(acc, day_name, r) ==
    [errors |-> ExtendErrors(acc.errors, r.errors),
     warnings |-> acc.warnings \o r.warnings,
     normalized |-> r.normalized @@ acc.normalized,
     field_errors |-> r.field_errors @@ acc.field_errors,
     daily_minutes |->
         IF IsNone(r.minutes) THEN acc.daily_minutes
         ELSE (day_name :> The(r.minutes)) @@ acc.daily_minutes]

\* The accumulators of calculate_week after the first pass over days[1..n].
RECURSIVE FirstPass(_, _, _)
FirstPass(days, n, assumption) ==
    IF n = 0
    THEN [errors |-> <<>>, warnings |-> <<>>, normalized |-> EmptyDict,
          field_errors |-> EmptyDict, daily_minutes |-> EmptyDict]
    ELSE Accumulate(FirstPass(days, n - 1, assumption), days[n].day_name,
                    process_day(days[n], assumption))

\* sum(dict[k] for k in keys)
RECURSIVE SumOver(_, _)
SumOver(dict, keys) ==
    IF keys = {} THEN 0
    ELSE dict[CHOOSE x \in keys : TRUE]
           + SumOver(dict, keys \ {CHOOSE x \in keys : TRUE})

\* The call returns a CalculationResult.
Returned(result) == [raises |-> None, value |-> Some(result)]

\* The call is left by an exception.
Raised(exception) == [raises |-> exception, value |-> None]

\* A variant that returns the errors alone.
BlockedDropsWarnings(acc) ==
    Returned([total_hours |-> None, hours_to_40 |-> None, friday_clock_out |-> None,
              daily_hours |-> EmptyDict, field_errors |-> acc.field_errors,
              errors |-> acc.errors, warnings |-> <<>>, successes |-> <<>>,
              normalized_times |-> EmptyDict])

\* Block all calculations if errors exist.
Blocked(acc) ==
    Returned([total_hours |-> None, hours_to_40 |-> None, friday_clock_out |-> None,
              daily_hours |-> EmptyDict, field_errors |-> acc.field_errors,
              errors |-> acc.errors, warnings |-> acc.warnings, successes |-> <<>>,
              normalized_times |-> acc.normalized])

\* daily_hours = {day: self._round_to_quarter(minutes / 60) ...}
DailyHours(daily_minutes) ==
    [d \in DOMAIN daily_minutes |-> round_to_quarter(daily_minutes[d], 60)]

\* total_minutes = sum(daily_minutes.values())
TotalMinutes(daily_minutes) == SumOver(daily_minutes, DOMAIN daily_minutes)

\* sum(minutes for name, minutes in daily_minutes.items() if name.lower() != "friday")
PreFridayMinutes(daily_minutes) ==
    SumOver(daily_minutes, {d \in DOMAIN daily_minutes : Lower(d) # <<"f", "r", "i", "d", "a", "y">>})

\* A variant that counts only the quarter hours completed.
TotalHoursTruncated(total_minutes) == 25 * RoundDown(4 * total_minutes, 60)

\* total_hours = self._round_to_quarter(total_minutes / 60)
TotalHours(total_minutes) == round_to_quarter(total_minutes, 60)

\* A variant that reports the absolute difference from 40 hours.
HoursTo40Absolute(total_minutes) ==
    IF total_minutes > 40 * 60
    THEN round_to_quarter(total_minutes - 40 * 60, 60)
    ELSE round_to_quarter(40 * 60 - total_minutes, 60)

\* hours_to_40 = self._round_to_quarter((40 * 60 - total_minutes) / 60)
HoursTo40(total_minutes) == round_to_quarter(40 * 60 - total_minutes, 60)

\* The CalculationResult of a week without errors, unless the Friday logic
\* raised.
Totals(acc, total_minutes, friday) ==
    IF ~IsNone(friday.raises) THEN Raised(friday.raises)
    ELSE Returned([total_hours |-> Some(TotalHours(total_minutes)),
                   hours_to_40 |-> Some(HoursTo40(total_minutes)),
                   friday_clock_out |-> friday.value,
                   daily_hours |-> DailyHours(acc.daily_minutes),
                   field_errors |-> acc.field_errors, errors |-> acc.errors,
                   warnings |-> friday.lists.warnings,
                   successes |-> friday.lists.successes,
                   normalized_times |-> friday.lists.normalized])

\* calculate_week after the first pass
SecondPass(days, acc) ==
    IF acc.errors # <<>> THEN Blocked(acc)
    ELSE Totals(acc, TotalMinutes(acc.daily_minutes),
                calculate_friday_clock_out(
                    days, PreFridayMinutes(acc.daily_minutes),
                    DictGet(acc.daily_minutes, FridayLiteral, None),
                    Lists(acc.warnings, <<>>, acc.normalized)))

\* calculate_week: what the call raises (None when it returns) and the
\* CalculationResult it returns.
calculate_week(days, assumption) ==
    SecondPass(days, FirstPass(days, Len(days), assumption))

(***************************************************************************)
(* The weeks the model hands to calculate_week.  The field combinations    *)
(* are exercised in full on Monday (a day that is not Friday) and on       *)
(* Friday, each against every combination of the other days' entries.      *)
(***************************************************************************)
Monday == <<"M", "o", "n", "d", "a", "y">>

Tuesday == <<"T", "u", "e", "s", "d", "a", "y">>

Wednesday == <<"W", "e", "d", "n", "e", "s", "d", "a", "y">>

Thursday == <<"T", "h", "u", "r", "s", "d", "a", "y">>

\* A DayInput, as the caller constructs it.
DayInput(day_name, start_time, end_time, lunch_minutes) ==
    [day_name |-> day_name, start_time |-> start_time, end_time |-> end_time,
     lunch_minutes |-> lunch_minutes]

Blank(day_name) == DayInput(day_name, <<>>, <<>>, <<>>)

\* 7:00 AM to 7:00 PM with an hour of lunch: 11 hours.
LongDay(day_name) ==
    DayInput(day_name, <<"7", ":", "0", "0", " ", "A", "M">>, <<"7", ":", "0", "0", " ", "P", "M">>, <<"6", "0">>)

MondayStarts == {<<>>, <<" ", "8">>, <<"1", "2">>, <<"2", "5", ":", "0", "0">>}
MondayEnds == {<<>>, <<"5">>, <<"8", "a", "m">>, <<"1", "2", ":", "3", "0", "a", "m">>, <<"2", "5", ":", "0", "0">>}
MondayLunches == {<<>>, <<" ">>, <<"6", "5">>, <<"4", "8", "0">>, <<"6", "0", "0">>, <<"x">>, <<"-", "1">>}

MondayFull ==
    {DayInput(Monday, s, e, l) :
         s \in MondayStarts, e \in MondayEnds, l \in MondayLunches}

MondayFew ==
    {Blank(Monday), LongDay(Monday),
     DayInput(Monday, <<"a", "s", "d", "f">>, <<>>, <<>>),
     DayInput(Monday, EightAM, <<"5", ":", "0", "0", " ", "P", "M">>, <<"5", "5">>)}

TuesdayPool ==
    {Blank(Tuesday), LongDay(Tuesday),
     DayInput(Tuesday, EightAM, <<"5", ":", "0", "0", " ", "P", "M">>, <<>>),
     DayInput(Tuesday, <<"2", "5", ":", "0", "0">>, <<>>, <<>>)}

WednesdayPool == {Blank(Wednesday), LongDay(Wednesday)}

ThursdayPool == {Blank(Thursday), LongDay(Thursday)}

FridayNames == {FridayLiteral, <<"f", "r", "i", "d", "a", "y">>}
FridayStarts == {<<>>, EightAM, <<"1", "1", "p", "m">>, <<"x">>}
FridayEnds == {<<>>, <<"5", ":", "0", "0", " ", "P", "M">>, <<"x">>}
FridayLunches == {<<>>, <<"3", "0">>, <<"x">>}

\* The last entry also comes under a name the code does not take for Friday.
FridayFull ==
    {DayInput(n, s, e, l) : n \in FridayNames, s \in FridayStarts, e \in FridayEnds,
                            l \in FridayLunches}
      \cup {Blank(<<"F", "r", "i">>), DayInput(<<"F", "r", "i">>, <<"x">>, <<>>, <<>>)}

FridayFew ==
    {Blank(FridayLiteral),
     DayInput(FridayLiteral, EightAM, <<>>, <<>>),
     DayInput(<<"f", "r", "i", "d", "a", "y">>, EightAM, <<"5", ":", "0", "0", " ", "P", "M">>, <<"6", "0">>),
     DayInput(FridayLiteral, EightAM, <<>>, <<"a", "b", "c">>)}

Weeks ==
    {<<mon, tue, wed, thu, fri>> :
         mon \in MondayFull, tue \in TuesdayPool, wed \in WednesdayPool,
         thu \in ThursdayPool, fri \in FridayFew}
      \cup
    {<<mon, tue, wed, thu, fri>> :
         mon \in MondayFew, tue \in TuesdayPool, wed \in WednesdayPool,
         thu \in ThursdayPool, fri \in FridayFull}

\* The weeks of the runs that call the service repeatedly.
RepeatWeeks ==
    {<<mon, Blank(Tuesday), Blank(Wednesday), Blank(Thursday), fri>> :
         mon \in {Blank(Monday), DayInput(Monday, <<"a", "s", "d", "f">>, <<>>, <<>>),
                  DayInput(Monday, EightAM, <<"5", ":", "0", "0", " ", "P", "M">>, <<>>)},
         fri \in {Blank(FridayLiteral), DayInput(FridayLiteral, EightAM, <<>>, <<>>)}}

\* The most calls one run makes of the same service.
MaxCalls == 3


(***************************************************************************)
(* The window of TimeSheetApp.  A widget is the record of the options the  *)
(* code reads and configures; the text of the message label is kept as     *)
(* its lines ("\n".join of the messages), every other text as characters.  *)
(***************************************************************************)
DEFAULT_BORDER_COLOR == "#444444"

\* self.days
AppDays == <<<<"M", "o", "n", "d", "a", "y">>, <<"T", "u", "e", "s", "d", "a", "y">>, <<"W", "e", "d", "n", "e", "s", "d", "a", "y">>, <<"T", "h", "u", "r", "s", "d", "a", "y">>, <<"F", "r", "i", "d", "a", "y">>>>

AppDayNames == {AppDays[i] : i \in 1..Len(AppDays)}

\* ctk.CTkEntry
Entry(text, border_color) == [text |-> text, border_color |-> border_color]

\* ctk.CTkLabel
Label(text, text_color) == [text |-> text, text_color |-> text_color]

\* self.hours_to_40_value.cget("text_color") of the fresh label
HoursTo40DefaultColor == "default"

\* self.entries[day] as _build_ui leaves it
BuiltRow ==
    [start |-> Entry(<<>>, DEFAULT_BORDER_COLOR), end |-> Entry(<<>>, DEFAULT_BORDER_COLOR),
     lunch |-> Entry(<<>>, DEFAULT_BORDER_COLOR), hours |-> Label(<<>>, "default")]

\* The handler that ran last and the day it ran for.
Handled(handler, day_name) == <<handler, day_name>>

\* _build_ui
BuiltWindow ==
    [entries |-> [d \in AppDayNames |-> BuiltRow],
     message_label |-> Label(<<>>, "red"),
     total_hours_value |-> Label(<<>>, "default"),
     hours_to_40_value |-> Label(<<>>, HoursTo40DefaultColor),
     friday_value |-> Label(<<>>, "default"),
     handled |-> <<>>]

\* str.rstrip(c)
RECURSIVE RStripChar(_, _)
RStripChar(s, c) ==
    IF s # <<>> /\ s[Len(s)] = c THEN RStripChar(SubSeq(s, 1, Len(s) - 1), c) ELSE s

\* The two decimals of a number of hundredths.
TwoDecimals(h) == <<DigitChar((h % 100) \div 10), DigitChar(h % 10)>>

\* f"{value:.2f}", the value in hundredths
FixedTwo(h) ==
    IF h < 0 THEN <<"-">> \o NatToStr((-h) \div 100) \o <<".">> \o TwoDecimals(-h)
    ELSE NatToStr(h \div 100) \o <<".">> \o TwoDecimals(h)

\* _format_hours_display: f"{value:.2f}".rstrip("0").rstrip(".")
format_hours_display(h) == RStripChar(RStripChar(FixedTwo(h), "0"), ".")

\* The decimals str() prints of a float with at most two of them.
ShortestDecimals(h) == IF h % 100 = 0 THEN <<"0">> ELSE RStripChar(TwoDecimals(h), "0")

\* str(value) of a float, the value in hundredths
StrOfFloat(h) ==
    IF h < 0 THEN <<"-">> \o NatToStr((-h) \div 100) \o <<".">> \o ShortestDecimals(-h)
    ELSE NatToStr(h \div 100) \o <<".">> \o ShortestDecimals(h)

\* str(value) of an Optional[float]
StrOf(value) == IF IsNone(value) THEN <<"N", "o", "n", "e">> ELSE StrOfFloat(The(value))

\* fields["hours"].configure(text=text)
SetHours(w, day_name, text) == [w EXCEPT !.entries[day_name].hours.text = text]

\* fields[field].configure(border_color=color)
SetBorder(w, day_name, field, color) ==
    [w EXCEPT !.entries[day_name][field].border_color = color]

\* A variant that shows the hours of a lunch longer than the shift as none.
UpdateWorkedFloored(w, day_name, duration, lunch_minutes) ==
    IF lunch_minutes > duration THEN SetHours(w, day_name, <<"0">>)
    ELSE SetHours(w, day_name,
                  format_hours_display(round_to_quarter(duration - lunch_minutes, 60)))

\* _update_day_hours, from "if lunch_minutes > duration"
UpdateWorked(w, day_name, duration, lunch_minutes) ==
    IF lunch_minutes > duration THEN SetHours(w, day_name, <<>>)
    ELSE SetHours(w, day_name,
                  format_hours_display(round_to_quarter(duration - lunch_minutes, 60)))

\* _update_day_hours: lunch handling with silent failure on bad input
UpdateLunch(w, day_name, duration, lunch_raw) ==
    IF lunch_raw = <<>>
    THEN UpdateWorked(SetBorder(w, day_name, "lunch", "yellow"), day_name, duration, 60)
    ELSE IF ~IsNone(IntOf(lunch_raw).raises) \/ The(IntOf(lunch_raw).value) < 0
    THEN SetHours(SetBorder(w, day_name, "lunch", "red"), day_name, <<>>)
    ELSE UpdateWorked(SetBorder(w, day_name, "lunch", DEFAULT_BORDER_COLOR), day_name,
                      duration, The(IntOf(lunch_raw).value))

\* _update_day_hours, from the two parsed times
UpdateTimes(w, day_name, start, end, lunch_raw) ==
    IF start.error \/ end.error \/ IsNone(start.minutes) \/ IsNone(end.minutes)
    THEN SetHours(w, day_name, <<>>)
    ELSE IF The(end.minutes) <= The(start.minutes)
    THEN SetHours(w, day_name, <<>>)
    ELSE UpdateLunch(w, day_name, The(end.minutes) - The(start.minutes), lunch_raw)

\* _update_day_hours, from the stripped texts of the row
UpdateRow(w, day_name, start_raw, end_raw, lunch_raw) ==
    IF start_raw = <<>> \/ end_raw = <<>>
    THEN SetBorder(SetHours(w, day_name, <<>>), day_name, "lunch", DEFAULT_BORDER_COLOR)
    ELSE UpdateTimes(w, day_name, parse_time(start_raw, TRUE), parse_time(end_raw, FALSE),
                     lunch_raw)

\* _update_day_hours(day_name)
update_day_hours(w, day_name) ==
    UpdateRow(w, day_name, Strip(w.entries[day_name].start.text),
              Strip(w.entries[day_name].end.text), Strip(w.entries[day_name].lunch.text))

\* _normalize_time_entry, from the parsed value
NormalizeParsed(w, day_name, field, parsed) ==
    IF parsed.error \/ IsNone(parsed.display) THEN w
    ELSE [w EXCEPT !.entries[day_name][field].text = The(parsed.display)]

\* _normalize_time_entry(entry, assume_am)
normalize_time_entry(w, day_name, field, assume_am) ==
    IF Strip(w.entries[day_name][field].text) = <<>> THEN w
    ELSE NormalizeParsed(w, day_name, field,
                         parse_time(Strip(w.entries[day_name][field].text), assume_am))

\* _clear_validation_styles
clear_validation_styles(w) ==
    [w EXCEPT !.entries =
        [d \in DOMAIN @ |->
            [@[d] EXCEPT !.start.border_color = DEFAULT_BORDER_COLOR,
                         !.end.border_color = DEFAULT_BORDER_COLOR,
                         !.lunch.border_color = DEFAULT_BORDER_COLOR]]]

\* _clear_hours_labels
clear_hours_labels(w) ==
    [w EXCEPT !.entries = [d \in DOMAIN @ |-> [@[d] EXCEPT !.hours.text = <<>>]]]

\* _clear_kpis
clear_kpis(w) ==
    [w EXCEPT !.total_hours_value.text = <<>>,
              !.hours_to_40_value = Label(<<>>, HoursTo40DefaultColor),
              !.friday_value.text = <<>>]

\* _calculate: the four clearing statements it begins with
Cleared(w) ==
    clear_kpis(clear_hours_labels(
        [clear_validation_styles(w) EXCEPT !.message_label.text = <<>>]))

\* _calculate: day_inputs, one DayInput per day of self.days
DayInputs(w) ==
    [i \in 1..Len(AppDays) |->
        DayInput(AppDays[i], w.entries[AppDays[i]].start.text,
                 w.entries[AppDays[i]].end.text, w.entries[AppDays[i]].lunch.text)]

\* _calculate: highlight lunch warnings (blank lunch assumed)
LunchWarned(w) ==
    [w EXCEPT !.entries =
        [d \in DOMAIN @ |->
            IF Strip(@[d].lunch.text) = <<>>
            THEN [@[d] EXCEPT !.lunch.border_color = "yellow"]
            ELSE @[d]]]

\* An entry with a red border if its key is in field_errors.
Flag(entry, key, field_errors) ==
    IF key \in DOMAIN field_errors THEN [entry EXCEPT !.border_color = "red"] ELSE entry

\* _calculate: red borders on the fields of field_errors (a key splits at
\* its underscore into a day of self.days and a field)
Flagged(w, field_errors) ==
    [w EXCEPT !.entries =
        [d \in DOMAIN @ |->
            [@[d] EXCEPT !.start = Flag(@, StartKey(d), field_errors),
                         !.end = Flag(@, EndKey(d), field_errors),
                         !.lunch = Flag(@, LunchKey(d), field_errors)]]]

\* _calculate: display errors and exit early
ShowErrors(w, result) ==
    clear_kpis([w EXCEPT !.message_label = Label(result.errors, "red")])

\* _calculate: display warnings (yellow)
ShowWarnings(w, result) ==
    IF result.warnings # <<>>
    THEN [w EXCEPT !.message_label = Label(result.warnings, "yellow")]
    ELSE [w EXCEPT !.message_label.text = <<>>]

\* _calculate: green when over 40, neutral otherwise
HoursTo40Color(hours_to_40) ==
    IF ~IsNone(hours_to_40) /\ The(hours_to_40) < 0 THEN "green" ELSE HoursTo40DefaultColor

\* _calculate: update KPIs
ShowKpis(w, result) ==
    [w EXCEPT !.total_hours_value.text = StrOf(result.total_hours),
              !.hours_to_40_value =
                  Label(StrOf(result.hours_to_40), HoursTo40Color(result.hours_to_40))]

\* _calculate: if result.friday_clock_out: ...
ShowFriday(w, result) ==
    IF ~IsNone(result.friday_clock_out) /\ The(result.friday_clock_out) # <<>>
    THEN [w EXCEPT !.friday_value.text = The(result.friday_clock_out)]
    ELSE w

\* _calculate: per-day hours column
ShowDailyHours(w, daily_hours) ==
    [w EXCEPT !.entries =
        [d \in DOMAIN @ |->
            IF d \in DOMAIN daily_hours
            THEN [@[d] EXCEPT !.hours.text = format_hours_display(daily_hours[d])]
            ELSE @[d]]]

\* _calculate: success messages (green)
ShowSuccesses(w, result) ==
    IF result.successes # <<>>
    THEN [w EXCEPT !.message_label = Label(result.successes, "green")]
    ELSE w

\* _calculate, from "if result.errors"
Shown(w, result) ==
    IF result.errors # <<>> THEN ShowErrors(w, result)
    ELSE ShowSuccesses(
             ShowDailyHours(ShowFriday(ShowKpis(ShowWarnings(w, result), result), result),
                            result.daily_hours),
             result)

\* _calculate, from the result of calculate_week; an exception of the call
\* leaves the window as it was cleared
Displayed(w, called) ==
    IF ~IsNone(called.raises) THEN w
    ELSE Shown(Flagged(LunchWarned(w), The(called.value).field_errors), The(called.value))

\* _calculate
calculate(w, assumption) == Displayed(Cleared(w), calculate_week(DayInputs(w), assumption))
(***************************************************************************)
(* The state machine: a caller that holds a TimeSheetService, builds a     *)
(* week of DayInputs and calls calculate_week on it.  The call is one      *)
(* step: it is synchronous and nothing runs beside it.                     *)
(***************************************************************************)
VARIABLES
    minutes_per_day_assumption, \* the only attribute of the TimeSheetService
    days,                       \* the list of DayInput handed to the call
    outcome,                    \* what the call raised or returned
    pc,                         \* "idle", "called" or "done"
    given,                      \* the week as the caller built it
    calls,                      \* the calls made so far
    history,                    \* the (days, outcome) of the calls that have returned
    frames,                     \* the calls made of one method directly, in order
    window                      \* the widgets of the TimeSheetApp that holds the service

vars == <<minutes_per_day_assumption, days, given, outcome, pc, calls, history, frames, window>>

NoOutcome == [raises |-> None, value |-> None]

\* TimeSheetService.__init__, and TimeSheetApp.__init__ around it
Init ==
    /\ minutes_per_day_assumption = 8 * 60
    /\ days = <<>>
    /\ given = <<>>
    /\ outcome = NoOutcome
    /\ pc = "idle"
    /\ calls = 0
    /\ history = {}
    /\ frames = <<>>
    /\ window = BuiltWindow

\* The caller builds a week from the pool and enters calculate_week.
Call(pool) ==
    /\ pc = "idle"
    /\ calls < MaxCalls
    /\ days' \in pool
    /\ given' = days'
    /\ calls' = calls + 1
    /\ pc' = "called"
    /\ outcome' = NoOutcome
    /\ UNCHANGED <<minutes_per_day_assumption, history, frames, window>>

\* A variant in which a call takes an hour off the assumed day.
AssumptionAfterCallDrifts == minutes_per_day_assumption - 60

\* calculate_week assigns to no attribute of self.
AssumptionAfterCall == minutes_per_day_assumption

\* calculate_week assigns to no element of days and to no field of a DayInput.
DaysAfterCall == days

\* calculate_week(days) runs to its return or to the exception that leaves it.
CalculateWeek ==
    /\ pc = "called"
    /\ outcome' = calculate_week(days, minutes_per_day_assumption)
    /\ minutes_per_day_assumption' = AssumptionAfterCall
    /\ days' = DaysAfterCall
    /\ pc' = "done"
    /\ UNCHANGED <<given, calls, history, frames, window>>

\* The caller takes the result and is free to call again.
Return ==
    /\ pc = "done"
    /\ history' = history \cup {[days |-> days, outcome |-> outcome]}
    /\ pc' = "idle"
    /\ UNCHANGED <<minutes_per_day_assumption, days, given, outcome, calls, frames, window>>

Next == Call(Weeks) \/ CalculateWeek

Spec == Init /\ [][Next]_vars

NextRepeat == Call(RepeatWeeks) \/ CalculateWeek \/ Return

SpecRepeat == Init /\ [][NextRepeat]_vars

(***************************************************************************)
(* The methods of the service called on their own, as the unit tests call  *)
(* them: each call is a frame that keeps its arguments and what it         *)
(* returned, and a second call is made on what the first one returned.     *)
(***************************************************************************)
Frame(fn, args, ret) == [fn |-> fn, args |-> args, ret |-> ret]

\* The longest raw string taken from the alphabet below.
MaxRawLen == 4

RawAlphabet == {"1", "2", "7", ":", "a", "p", "m", " ", "P"}

\* Every string over the alphabet up to the length bound.
ShapeRaws == UNION {[1..k -> RawAlphabet] : k \in 0..MaxRawLen}

TwoDigits(n) == <<DigitChar(n \div 10), DigitChar(n % 10)>>

\* Every time of the day written H:MM or HH:MM, bare or with a marker.
ClockRaws ==
    {hh \o <<":">> \o TwoDigits(m) \o marker :
         hh \in {NatToStr(h) : h \in 0..23} \cup {TwoDigits(h) : h \in 0..23},
         m \in 0..59, marker \in PeriodMarkers \cup {<<>>}}

\* A few more shapes: no minutes, no colon, upper case, padding, signs.
OddRaws ==
    {<<"0">>, <<"0", "p">>, <<"0", "0">>, <<"8">>, <<"8", " ", "A", "M">>, <<" ", "8", ":", "3", "0", " ", "p", "m", " ">>, <<"0", "8", "3", "0">>, <<"1", "2", "3", "0">>, <<"8", "3", "0">>,
     <<"1", "2", "3">>, <<"1", "2", ":">>, <<"9", ":", "5">>, <<"9", ":", "9", "9">>, <<"2", "4", ":", "0", "0">>, <<"2", "5", ":", "0", "0">>, <<"1", "3", "p", "m">>, <<"2", "3", " ", "P", "M">>,
     <<"8", ":", "0", "0", ":", "0", "0">>, <<"-", "8">>, <<"8", ".", "3", "0">>, <<"n", "o", "o", "n">>, <<"8", " ", ":", " ", "3", "0">>, <<"8", ":", "3", "0", " ", "a", " ", "m">>}

ParseRaws == ShapeRaws \cup ClockRaws \cup OddRaws

\* _parse_time(raw, assume_am), called directly.
ParseTime ==
    /\ frames = <<>>
    /\ \E raw \in ParseRaws, assume_am \in BOOLEAN :
         frames' = <<Frame("_parse_time", [raw |-> raw, assume_am |-> assume_am],
                           parse_time(raw, assume_am))>>
    /\ UNCHANGED <<minutes_per_day_assumption, days, given, outcome, pc, calls, history, window>>

\* _parse_time called on the display string a successful parse returned.
ParseDisplay ==
    /\ Len(frames) = 1
    /\ frames[1].fn = "_parse_time"
    /\ ~frames[1].ret.error
    /\ \E assume_am \in BOOLEAN :
         frames' = Append(frames,
                          Frame("_parse_time",
                                [raw |-> The(frames[1].ret.display), assume_am |-> assume_am],
                                parse_time(The(frames[1].ret.display), assume_am)))
    /\ UNCHANGED <<minutes_per_day_assumption, days, given, outcome, pc, calls, history, window>>

NextParse == ParseTime \/ ParseDisplay

SpecParse == Init /\ [][NextParse]_vars

\* The largest minute value handed to _minutes_to_display directly.
MaxMinutes == 2879

\* _minutes_to_display(minutes), called directly.
MinutesToDisplay ==
    /\ frames = <<>>
    /\ \E minutes \in 0..MaxMinutes :
         frames' = <<Frame("_minutes_to_display", [minutes |-> minutes],
                           minutes_to_display(minutes))>>
    /\ UNCHANGED <<minutes_per_day_assumption, days, given, outcome, pc, calls, history, window>>

\* _parse_time(display, assume_am=True) on the string just formatted.
ParseFormatted ==
    /\ Len(frames) = 1
    /\ frames[1].fn = "_minutes_to_display"
    /\ frames' = Append(frames,
                        Frame("_parse_time", [raw |-> frames[1].ret, assume_am |-> TRUE],
                              parse_time(frames[1].ret, TRUE)))
    /\ UNCHANGED <<minutes_per_day_assumption, days, given, outcome, pc, calls, history, window>>

\* _minutes_to_display of the same minute of the next day.
DisplayNextDay ==
    /\ Len(frames) = 1
    /\ frames[1].fn = "_minutes_to_display"
    /\ frames' = Append(frames,
                        Frame("_minutes_to_display",
                              [minutes |-> frames[1].args.minutes + 1440],
                              minutes_to_display(frames[1].args.minutes + 1440)))
    /\ UNCHANGED <<minutes_per_day_assumption, days, given, outcome, pc, calls, history, window>>

NextFormat == MinutesToDisplay \/ ParseFormatted \/ DisplayNextDay

SpecFormat == Init /\ [][NextFormat]_vars

\* The most minutes a week of five days can hold.
MaxWeekMinutes == 7200

\* The largest number of eighths of an hour handed to _round_to_quarter.
MaxEighths == 400

\* The values handed to _round_to_quarter, each a fraction num / den: whole
\* minutes over 60 of either sign, and eighths of an hour, where the ties
\* of the rounding lie.
RoundArgs ==
    {[num |-> n, den |-> 60] : n \in (0 - MaxWeekMinutes)..MaxWeekMinutes}
      \cup {[num |-> n, den |-> 8] : n \in (0 - MaxEighths)..MaxEighths}

\* _round_to_quarter(value), called directly; it returns hundredths.
RoundToQuarter ==
    /\ frames = <<>>
    /\ \E value \in RoundArgs :
         frames' = <<Frame("_round_to_quarter", value, round_to_quarter(value.num, value.den))>>
    /\ UNCHANGED <<minutes_per_day_assumption, days, given, outcome, pc, calls, history, window>>

\* _round_to_quarter called on the value it returned.
RoundAgain ==
    /\ Len(frames) = 1
    /\ frames[1].fn = "_round_to_quarter"
    /\ frames' = Append(frames,
                        Frame("_round_to_quarter", [num |-> frames[1].ret, den |-> 100],
                              round_to_quarter(frames[1].ret, 100)))
    /\ UNCHANGED <<minutes_per_day_assumption, days, given, outcome, pc, calls, history, window>>

NextRound == RoundToQuarter \/ RoundAgain

SpecRound == Init /\ [][NextRound]_vars

\* The Friday entries, minutes and accumulators handed to the Friday logic
\* when it is called on its own.
ProjectionFridays ==
    {DayInput(n, s, e, l) :
         n \in FridayNames, s \in FridayStarts \cup {<<"2", "5", ":", "0", "0">>, <<" ", "9", " ">>},
         e \in FridayEnds, l \in FridayLunches \cup {<<"-", "5">>, <<"1", ".", "5">>, <<" ", "4", "5">>}}

ProjectionWeeks ==
    {<<Blank(Monday), Blank(Tuesday), Blank(Wednesday), Blank(Thursday), fri>> :
         fri \in ProjectionFridays}

ProjectionMinutes == {0, 1920, 2399, 2400, 2640}

ProjectionLists ==
    {Lists(<<>>, <<>>, EmptyDict),
     Lists(<<Msg(FridayLiteral, "lunch assumed to be 60 minutes")>>, <<>>,
           (StartKey(FridayLiteral) :> <<"9", ":", "0", "0", " ", "A", "M">>))}

\* _calculate_friday_clock_out(days, pre_friday_minutes, friday_minutes,
\* warnings, successes, normalized), called directly.
CalculateFridayClockOut ==
    /\ frames = <<>>
    /\ \E week \in ProjectionWeeks, pre \in ProjectionMinutes, lists \in ProjectionLists :
         frames' = <<Frame("_calculate_friday_clock_out",
                           [days |-> week, pre_friday_minutes |-> pre,
                            friday_minutes |-> None, lists |-> lists],
                           calculate_friday_clock_out(week, pre, None, lists))>>
    /\ UNCHANGED <<minutes_per_day_assumption, days, given, outcome, pc, calls, history, window>>

NextFriday == CalculateFridayClockOut

SpecFriday == Init /\ [][NextFriday]_vars

\* The days handed to _process_day when it is called on its own: every
\* combination of a name, a start, an end and a lunch.
DayNames == {Monday, FridayLiteral, <<"f", "r", "i", "d", "a", "y">>}

DayStarts == {<<>>, <<"8">>, <<"9", ":", "0", "0", " ", "A", "M">>, <<"1", "2">>, <<"1", "p", "m">>, <<"x">>, <<"2", "5", ":", "0", "0">>}

DayEnds == {<<>>, <<"5">>, <<"8", "a", "m">>, <<"9">>, <<"9", "a", "m">>, <<"x">>}

DayLunches == {<<>>, <<" ">>, <<"0">>, <<"6", "0">>, <<"1", "2", "0">>, <<"5", "4", "0">>, <<"x">>, <<"-", "1">>, <<"1", ".", "5">>, <<"+", "3", "0">>}

DayPool ==
    {DayInput(n, s, e, l) : n \in DayNames, s \in DayStarts, e \in DayEnds, l \in DayLunches}

\* _process_day(day), called as calculate_week calls it for each day.
ProcessDay ==
    /\ frames = <<>>
    /\ \E day \in DayPool :
         frames' = <<Frame("_process_day", [day |-> day],
                           process_day(day, minutes_per_day_assumption))>>
    /\ UNCHANGED <<minutes_per_day_assumption, days, given, outcome, pc, calls, history, window>>

NextDay == ProcessDay

SpecDay == Init /\ [][NextDay]_vars

\* The weeks of the runs that range over the week's total: Monday from
\* midnight to one of a few ends with every lunch up to MaxLunch minutes, the
\* following days blank or worked from midnight to 11:59 PM, Friday blank
\* (every blank day counts as the assumed day).
MaxLunch == 59

TotalEnds == {<<"1", "a", "m">>, <<"8", "a", "m">>, <<"9", "a", "m">>, <<"1", "1", ":", "5", "9", "p", "m">>}

WholeDay(day_name) == DayInput(day_name, <<"1", "2", "a", "m">>, <<"1", "1", ":", "5", "9", "p", "m">>, <<"0">>)

TotalWeeks ==
    {<<DayInput(Monday, <<"1", "2", "a", "m">>, e, NatToStr(l)), tue, wed, thu, Blank(FridayLiteral)>> :
         e \in TotalEnds, l \in 0..MaxLunch,
         tue \in {Blank(Tuesday), WholeDay(Tuesday)},
         wed \in {Blank(Wednesday), WholeDay(Wednesday)},
         thu \in {Blank(Thursday), WholeDay(Thursday)}}

NextTotals == Call(TotalWeeks) \/ CalculateWeek

SpecTotals == Init /\ [][NextTotals]_vars

(***************************************************************************)
(* The window in use: texts are inserted into the entries of the fresh     *)
(* window, then the handlers run as the user tabs through the fields and   *)
(* presses Calculate.  A handler is one step.                              *)
(***************************************************************************)
AppStarts == {<<>>, <<"8">>, <<"9", ":", "0", "0", " ", "A", "M">>, <<"a", "s", "d", "f">>}

AppEnds == {<<>>, <<"5">>, <<"8", "a", "m">>, <<"1", "3", "p", "m">>, <<"x">>}

AppLunches == {<<>>, <<" ">>, <<"0">>, <<"5", "4", "0">>, <<"x">>, <<"-", "1">>}

Texts(start, end, lunch) == [start |-> start, end |-> end, lunch |-> lunch]

NoTexts == Texts(<<>>, <<>>, <<>>)

AppRows == {Texts(s, e, l) : s \in AppStarts, e \in AppEnds, l \in AppLunches}

\* What is typed into the five rows: every combination on Monday beside
\* blank rows, and a few Mondays beside a worked Tuesday and a Friday in
\* progress.
AppWeeks ==
    {(Monday :> mon @@ Tuesday :> NoTexts @@ Wednesday :> NoTexts @@ Thursday :> NoTexts
          @@ FridayLiteral :> NoTexts) : mon \in AppRows}
      \cup
    {(Monday :> mon @@ Tuesday :> tue @@ Wednesday :> NoTexts @@ Thursday :> NoTexts
          @@ FridayLiteral :> fri) :
         mon \in {NoTexts, Texts(<<"a", "s", "d", "f">>, <<>>, <<>>), Texts(<<"8">>, <<"5">>, <<"x">>)},
         tue \in {NoTexts, Texts(<<"8", ":", "0", "0", " ", "A", "M">>, <<"5", ":", "0", "0", " ", "P", "M">>, <<>>)},
         fri \in {NoTexts, Texts(<<"8", ":", "0", "0", " ", "A", "M">>, <<>>, <<>>)}}

\* entry.insert(0, text) on the entries of a row
Inserted(row, texts) ==
    [row EXCEPT !.start.text = texts.start, !.end.text = texts.end,
                !.lunch.text = texts.lunch]

\* The user fills the rows of the fresh window.
Insert ==
    /\ window = BuiltWindow
    /\ \E week \in AppWeeks :
         window' = [window EXCEPT !.entries = [d \in DOMAIN @ |-> Inserted(@[d], week[d])],
                                  !.handled = Handled("insert", <<>>)]
    /\ UNCHANGED <<minutes_per_day_assumption, days, given, outcome, pc, calls, history, frames>>

\* _update_day_hours(day_name), called on its own
UpdateDayHours ==
    /\ window.handled # <<>>
    /\ \E day_name \in AppDayNames :
         window' = [update_day_hours(window, day_name)
                        EXCEPT !.handled = Handled("_update_day_hours", day_name)]
    /\ UNCHANGED <<minutes_per_day_assumption, days, given, outcome, pc, calls, history, frames>>

\* on_start_focus_out
StartFocusOut ==
    /\ window.handled # <<>>
    /\ \E day_name \in AppDayNames :
         window' = [update_day_hours(normalize_time_entry(window, day_name, "start", TRUE),
                                     day_name)
                        EXCEPT !.handled = Handled("_update_day_hours", day_name)]
    /\ UNCHANGED <<minutes_per_day_assumption, days, given, outcome, pc, calls, history, frames>>

\* on_end_focus_out
EndFocusOut ==
    /\ window.handled # <<>>
    /\ \E day_name \in AppDayNames :
         window' = [update_day_hours(normalize_time_entry(window, day_name, "end", FALSE),
                                     day_name)
                        EXCEPT !.handled = Handled("_update_day_hours", day_name)]
    /\ UNCHANGED <<minutes_per_day_assumption, days, given, outcome, pc, calls, history, frames>>

\* _calculate, the command of the Calculate button
Calculate ==
    /\ window.handled # <<>>
    /\ window' = [calculate(window, minutes_per_day_assumption)
                      EXCEPT !.handled = Handled("_calculate", <<>>)]
    /\ minutes_per_day_assumption' = AssumptionAfterCall
    /\ UNCHANGED <<days, given, outcome, pc, calls, history, frames>>

NextApp == Insert \/ UpdateDayHours \/ StartFocusOut \/ EndFocusOut \/ Calculate

SpecApp == Init /\ [][NextApp]_vars

(***************************************************************************)
(* Properties.  What the properties read of a state.                       *)
(***************************************************************************)
Done == pc = "done"

\* The call returned a CalculationResult.
HasResult == Done /\ IsNone(outcome.raises)

Result == The(outcome.value)

ErrorFree == HasResult /\ Result.errors = <<>>

HasFriday == \E i \in 1..Len(days) : IsFriday(days[i].day_name)

Days == 1..Len(days)

Elements(seq) == {seq[i] : i \in 1..Len(seq)}

\* The fields of a day as the user left them, judged on their own.
StartBlank(d) == Strip(d.start_time) = <<>>

EndBlank(d) == Strip(d.end_time) = <<>>

LunchBlank(d) == Strip(d.lunch_minutes) = <<>>

StartBad(d) == ~StartBlank(d) /\ parse_time(Strip(d.start_time), TRUE).error

EndBad(d) == ~EndBlank(d) /\ parse_time(Strip(d.end_time), FALSE).error

LunchBad(d) == ~LunchBlank(d) /\ LunchInvalid(Strip(d.lunch_minutes))

StartMinutes(d) == The(parse_time(Strip(d.start_time), TRUE).minutes)

EndMinutes(d) == The(parse_time(Strip(d.end_time), FALSE).minutes)

\* Both times are there and valid.
TimesValid(d) == ~StartBlank(d) /\ ~EndBlank(d) /\ ~StartBad(d) /\ ~EndBad(d)

EndNotAfterStart(d) == TimesValid(d) /\ EndMinutes(d) <= StartMinutes(d)

LunchOf(d) == IF LunchBlank(d) THEN 60 ELSE LunchValue(Strip(d.lunch_minutes))

LunchTooLong(d) ==
    /\ TimesValid(d) /\ ~EndNotAfterStart(d) /\ ~LunchBad(d)
    /\ LunchOf(d) > EndMinutes(d) - StartMinutes(d)

\* One of the validation failures of the error taxonomy.
DayFails(d) ==
    StartBad(d) \/ EndBad(d) \/ LunchBad(d) \/ EndNotAfterStart(d) \/ LunchTooLong(d)

\* Friday with a start and no end.
InProgress(d) == IsFriday(d.day_name) /\ ~StartBlank(d) /\ EndBlank(d)

DayKeys(d) == {StartKey(d.day_name), EndKey(d.day_name), LunchKey(d.day_name)}

\* The minutes the day's own processing yields.
DayMinutes(d) == process_day(d, 8 * 60).minutes

RECURSIVE MinutesOfDays(_)
MinutesOfDays(set) ==
    IF set = {} THEN 0
    ELSE LET i == CHOOSE x \in set : TRUE
         IN  The(DayMinutes(days[i])) + MinutesOfDays(set \ {i})

\* The sum of worked minutes over the days that produced a value.
WeekMinutes == MinutesOfDays({i \in Days : ~IsNone(DayMinutes(days[i]))})

(***************************************************************************)
(* C1: in every result, errors is non-empty if and only if total_hours,    *)
(* hours_to_40 and friday_clock_out are all absent and daily_hours is      *)
(* empty; a result without errors has all three present.                   *)
(***************************************************************************)
AggregatesAbsent ==
    /\ IsNone(Result.total_hours)
    /\ IsNone(Result.hours_to_40)
    /\ IsNone(Result.friday_clock_out)
    /\ DOMAIN Result.daily_hours = {}

C1_ErrorsIffAggregatesAbsent ==
    (Done /\ HasFriday) =>
        /\ HasResult
        /\ (Result.errors # <<>>) <=> AggregatesAbsent
        /\ Result.errors = <<>> =>
               /\ ~IsNone(Result.total_hours)
               /\ ~IsNone(Result.hours_to_40)
               /\ ~IsNone(Result.friday_clock_out)

\* An error-free week whose Friday is in progress with a lunch entered: the
\* projection had a start and a lunch to parse.
C1_Witness ==
    /\ ErrorFree
    /\ \E i \in Days : InProgress(days[i]) /\ ~LunchBlank(days[i])
    /\ ~IsNone(Result.friday_clock_out)

(***************************************************************************)
(* C2: calculate_week never fails fast: the error lines of every day that  *)
(* errors are in the result's errors, in the order of the days.            *)
(***************************************************************************)
DayOfLine(line) == CHOOSE i \in Days : days[i].day_name = line.day

C2_AllDaysReportedInOrder ==
    Done =>
        /\ HasResult \/ ~HasFriday
        /\ \A i \in Days :
               process_day(days[i], 8 * 60).errors # <<>> =>
                   /\ HasResult
                   /\ Elements(process_day(days[i], 8 * 60).errors)
                          \subseteq Elements(Result.errors)
        /\ HasResult =>
               /\ \A p \in 1..Len(Result.errors) :
                      \E i \in Days : days[i].day_name = Result.errors[p].day
               /\ \A p, q \in 1..Len(Result.errors) :
                      p < q => DayOfLine(Result.errors[p]) <= DayOfLine(Result.errors[q])

\* Three days of the week error, the first and the last among them.
C2_Witness ==
    /\ HasResult
    /\ DayFails(days[1]) /\ DayFails(days[2]) /\ DayFails(days[5])
    /\ Len(Result.errors) >= 3

(***************************************************************************)
(* C3: for a week that holds a Friday, calculate_week returns a result and *)
(* raises nothing; every day with a validation failure has an error line   *)
(* and a field_errors entry in it.                                         *)
(***************************************************************************)
C3_FailuresEncodedNotRaised ==
    (Done /\ HasFriday) =>
        /\ IsNone(outcome.raises)
        /\ ~IsNone(outcome.value)
        /\ \A i \in Days :
               DayFails(days[i]) =>
                   /\ \E line \in Elements(Result.errors) : line.day = days[i].day_name
                   /\ DayKeys(days[i]) \cap DOMAIN Result.field_errors # {}

\* A week with a lower-case friday in which Monday's lunch is longer than
\* the shift and Tuesday's start does not parse.
C3_Witness ==
    /\ HasResult
    /\ days[5].day_name = <<"f", "r", "i", "d", "a", "y">>
    /\ LunchTooLong(days[1]) /\ StartBad(days[2])
    /\ Len(Result.errors) = 2

(***************************************************************************)
(* C4: when a day errors, the result still holds every warning of the      *)
(* per-day processing of all five days and every start and end that        *)
(* parsed, under its key, also on a day whose other field is invalid.      *)
(***************************************************************************)
C4_ErrorsKeepWarningsAndNormalized ==
    (HasResult /\ Result.errors # <<>>) =>
        /\ \A i \in Days :
               Elements(process_day(days[i], 8 * 60).warnings)
                   \subseteq Elements(Result.warnings)
        /\ \A i \in Days :
               (~StartBlank(days[i]) /\ ~StartBad(days[i])) =>
                   /\ StartKey(days[i].day_name) \in DOMAIN Result.normalized_times
                   /\ Result.normalized_times[StartKey(days[i].day_name)]
                          = minutes_to_display(StartMinutes(days[i]))
        /\ \A i \in Days :
               (~EndBlank(days[i]) /\ ~EndBad(days[i])) =>
                   /\ EndKey(days[i].day_name) \in DOMAIN Result.normalized_times
                   /\ Result.normalized_times[EndKey(days[i].day_name)]
                          = minutes_to_display(EndMinutes(days[i]))

\* Monday has a valid start beside an invalid end, and Tuesday a warning.
C4_Witness ==
    /\ HasResult
    /\ ~StartBlank(days[1]) /\ ~StartBad(days[1]) /\ EndBad(days[1])
    /\ StartKey(days[1].day_name) \in DOMAIN Result.normalized_times
    /\ Msg(days[2].day_name, "lunch assumed to be 60 minutes") \in Elements(Result.warnings)

(***************************************************************************)
(* C5, as claimed: every start, end or lunch field that is non-blank and   *)
(* invalid has its key in field_errors, also beside another invalid field  *)
(* of the same day.                                                        *)
(***************************************************************************)
C5_EveryInvalidFieldKeyed ==
    HasResult =>
        \A i \in Days :
            /\ StartBad(days[i]) => StartKey(days[i].day_name) \in DOMAIN Result.field_errors
            /\ EndBad(days[i]) => EndKey(days[i].day_name) \in DOMAIN Result.field_errors
            /\ LunchBad(days[i]) => LunchKey(days[i].day_name) \in DOMAIN Result.field_errors

(***************************************************************************)
(* C5, amended: every invalid start or end has its key in field_errors,    *)
(* also beside another invalid field of the same day; an invalid lunch has *)
(* its key when the times of its day that are present are valid and, when  *)
(* both are present, the end is after the start.                           *)
(***************************************************************************)
C5_InvalidTimesKeyedLunchWhenReached ==
    HasResult =>
        \A i \in Days :
            /\ StartBad(days[i]) => StartKey(days[i].day_name) \in DOMAIN Result.field_errors
            /\ EndBad(days[i]) => EndKey(days[i].day_name) \in DOMAIN Result.field_errors
            /\ (LunchBad(days[i]) /\ ~StartBad(days[i]) /\ ~EndBad(days[i])
                  /\ ~EndNotAfterStart(days[i]))
                   => LunchKey(days[i].day_name) \in DOMAIN Result.field_errors

\* Monday's start and end are both invalid, and another day errors too.
C5_Witness ==
    /\ HasResult
    /\ StartBad(days[1]) /\ EndBad(days[1])
    /\ DayFails(days[2])
    /\ {StartKey(days[1].day_name), EndKey(days[1].day_name)}
           \subseteq DOMAIN Result.field_errors

(***************************************************************************)
(* C6: every key of field_errors is a supplied day_name followed by        *)
(* _start, _end or _lunch, and every key of normalized_times a supplied    *)
(* day_name followed by _start or _end, whatever the spelling of Friday.   *)
(***************************************************************************)
C6_KeysUseSuppliedDayNames ==
    HasResult =>
        /\ DOMAIN Result.field_errors
               \subseteq UNION {DayKeys(days[i]) : i \in Days}
        /\ DOMAIN Result.normalized_times
               \subseteq {StartKey(days[i].day_name) : i \in Days}
                           \cup {EndKey(days[i].day_name) : i \in Days}

AssumedFull(d) ==
    /\ ~LunchBad(d)
    /\ \/ StartBlank(d) /\ EndBlank(d)
       \/ ~IsFriday(d.day_name) /\ ~StartBlank(d) /\ ~StartBad(d) /\ EndBlank(d)
       \/ StartBlank(d) /\ ~EndBlank(d) /\ ~EndBad(d)

C9_AssumedDayIs480 ==
    (Done /\ HasFriday) =>
        /\ \A i \in Days :
               AssumedFull(days[i]) =>
                   /\ DayMinutes(days[i]) = Some(480)
                   /\ ErrorFree => Result.daily_hours[days[i].day_name] = 800
        /\ (\A i \in Days : StartBlank(days[i]) /\ EndBlank(days[i]) /\ LunchBlank(days[i])) =>
               /\ HasResult
               /\ Result.total_hours = Some(4000)
               /\ Result.errors = <<>>

\* An error-free week whose Monday has only an end and a lunch entered.
C9_Witness ==
    /\ ErrorFree
    /\ StartBlank(days[1]) /\ ~EndBlank(days[1]) /\ ~LunchBlank(days[1])
    /\ Result.daily_hours[days[1].day_name] = 800

(***************************************************************************)
(* C10: in an error-free result a Friday with a start and no end has no    *)
(* key in daily_hours, and total_hours and hours_to_40 come from the other *)
(* days only; every other day has its key in daily_hours.                  *)
(***************************************************************************)
C10_OnlyFridayInProgressOmitted ==
    ErrorFree =>
        \A i \in Days :
            /\ InProgress(days[i]) =>
                   /\ days[i].day_name \notin DOMAIN Result.daily_hours
                   /\ Result.total_hours
                          = Some(round_to_quarter(MinutesOfDays(Days \ {i}), 60))
                   /\ Result.hours_to_40
                          = Some(round_to_quarter(2400 - MinutesOfDays(Days \ {i}), 60))
            /\ ~InProgress(days[i]) => days[i].day_name \in DOMAIN Result.daily_hours

\* Friday is in progress and the other four days are in daily_hours.
C10_Witness ==
    /\ ErrorFree
    /\ InProgress(days[5])
    /\ Cardinality(DOMAIN Result.daily_hours) = 4

(***************************************************************************)
(* The Friday projection, read off the week.                               *)
(***************************************************************************)
\* The week's Friday entry.
TheFriday == days[CHOOSE i \in Days : IsFriday(days[i].day_name)]

\* The minutes worked on the days that are not Friday.
PreMinutes ==
    MinutesOfDays({i \in Days : ~IsFriday(days[i].day_name) /\ ~IsNone(DayMinutes(days[i]))})

\* The parsed Friday start, 480 when blank.
FridayStartOf == IF StartBlank(TheFriday) THEN 480 ELSE StartMinutes(TheFriday)

ClockOut == Result.friday_clock_out

(***************************************************************************)
(* C11: in an error-free week whose Monday-Thursday minutes pre are below  *)
(* 2400 and whose Friday end is blank, friday_clock_out is the display of  *)
(* fridayStart + 2400 - pre + fridayLunch taken modulo 1440 (start 480     *)
(* when blank, lunch 60 when blank); four 8-hour days and an 8:00 AM       *)
(* Friday start give "5:00 PM".                                            *)
(***************************************************************************)
C11_ClockOutIsProjection ==
    (ErrorFree /\ HasFriday /\ PreMinutes < 2400 /\ EndBlank(TheFriday)) =>
        /\ ClockOut =
             Some(minutes_to_display(
                      (FridayStartOf + 2400 - PreMinutes + LunchOf(TheFriday)) % 1440))
        /\ (PreMinutes = 4 * 480 /\ FridayStartOf = 480 /\ LunchBlank(TheFriday)) =>
               ClockOut = Some(<<"5", ":", "0", "0", " ", "P", "M">>)

\* A Friday started at 11:00 PM after four 8-hour days: 1920 minutes past
\* midnight, shown as 8:00 AM.
C11_Witness ==
    /\ ErrorFree /\ HasFriday
    /\ PreMinutes = 1920
    /\ EndBlank(TheFriday)
    /\ ~StartBlank(TheFriday) /\ StartMinutes(TheFriday) = 1380
    /\ LunchBlank(TheFriday)
    /\ ClockOut = Some(EightAM)

(***************************************************************************)
(* C12: in an error-free week whose Monday-Thursday minutes are at least   *)
(* 2400, successes holds "40 hours reached before Friday this week" and    *)
(* friday_clock_out is the normalized Friday start when a Friday start was *)
(* entered, "8:00 AM" otherwise.                                           *)
(***************************************************************************)
FortyReached == Literal("40 hours reached before Friday this week")

NormalizedFridayStart == parse_time(Strip(TheFriday.start_time), TRUE).display

C12_FortyReachedGivesFridayStart ==
    (ErrorFree /\ HasFriday /\ PreMinutes >= 2400) =>
        /\ FortyReached \in Elements(Result.successes)
        /\ ClockOut = IF StartBlank(TheFriday) THEN Some(EightAM) ELSE NormalizedFridayStart

(***************************************************************************)
(* C13: whenever the week has no errors and Friday's end is provided and   *)
(* parses, friday_clock_out is Friday's normalized end time, whatever the  *)
(* Monday-Thursday total is.                                               *)
(***************************************************************************)
FridayEndGiven == HasFriday /\ ~EndBlank(TheFriday) /\ ~EndBad(TheFriday)

NormalizedFridayEnd == Result.normalized_times[EndKey(TheFriday.day_name)]

C13_ExplicitEndAlwaysWins ==
    (ErrorFree /\ FridayEndGiven) => ClockOut = Some(NormalizedFridayEnd)

\* C13 as the code has it: in a week without errors whose Monday-Thursday
\* minutes are below 2400, a Friday end that is provided and parses is the
\* friday_clock_out, in its normalized form.
C13_ExplicitEndWinsBelowForty ==
    (ErrorFree /\ FridayEndGiven /\ PreMinutes < 2400) =>
        /\ ClockOut = Some(NormalizedFridayEnd)
        /\ ClockOut = parse_time(Strip(TheFriday.end_time), FALSE).display

\* A Friday with start, end and lunch after four 8-hour days: the projection
\* would say 5:00 PM + lunch, the end entered says 5:00 PM.
C13_Witness ==
    /\ ErrorFree /\ FridayEndGiven
    /\ PreMinutes = 1920
    /\ ~StartBlank(TheFriday) /\ ~LunchBlank(TheFriday) /\ LunchOf(TheFriday) = 30
    /\ ClockOut = Some(<<"5", ":", "0", "0", " ", "P", "M">>)

(***************************************************************************)
(* C14: the Friday projection, called with pre-Friday minutes below 2400,  *)
(* returns an absent clock-out when Friday's start is non-blank and does   *)
(* not parse, or when Friday's lunch is non-blank and not a non-negative   *)
(* integer; it raises nothing and adds no error message to any list.       *)
(***************************************************************************)
ProjectionCalled == frames # <<>> /\ frames[1].fn = "_calculate_friday_clock_out"

ProjectionArgs == frames[1].args

ProjectionFriday ==
    ProjectionArgs.days[CHOOSE i \in 1..Len(ProjectionArgs.days) :
                            IsFriday(ProjectionArgs.days[i].day_name)]

\* The two messages the Friday logic may append to warnings.
FridayAssumptions ==
    {Literal("Friday start time assumed to be 8:00 AM"),
     Msg(FridayLiteral, "lunch assumed to be 60 minutes")}

C14_UnprojectableReturnsAbsent ==
    (/\ ProjectionCalled
     /\ ProjectionArgs.pre_friday_minutes < 2400
     /\ StartBad(ProjectionFriday) \/ LunchBad(ProjectionFriday)) =>
        /\ IsNone(frames[1].ret.raises)
        /\ IsNone(frames[1].ret.value)
        /\ frames[1].ret.lists.successes = ProjectionArgs.lists.successes
        /\ Elements(frames[1].ret.lists.warnings)
             \subseteq Elements(ProjectionArgs.lists.warnings) \cup FridayAssumptions

\* A blank start with a negative lunch: the start is assumed, with its
\* warning, before the lunch ends the projection.
C14_Witness ==
    /\ ProjectionCalled
    /\ ProjectionArgs.pre_friday_minutes = 1920
    /\ StartBlank(ProjectionFriday)
    /\ ProjectionFriday.lunch_minutes = <<"-", "5">>
    /\ IsNone(frames[1].ret.value)
    /\ Len(frames[1].ret.lists.warnings) = Len(ProjectionArgs.lists.warnings) + 1

\* The other way to it: a start that does not parse.
C14_WitnessStart ==
    /\ ProjectionCalled
    /\ ProjectionArgs.pre_friday_minutes = 2399
    /\ StartBad(ProjectionFriday) /\ ~LunchBad(ProjectionFriday)
    /\ IsNone(frames[1].ret.value)

(***************************************************************************)
(* What a direct call of _parse_time was given, read off the raw string    *)
(* where it is one of the clock times H:MM or HH:MM with or without a      *)
(* marker.                                                                 *)
(***************************************************************************)
ParseCalled == frames # <<>> /\ frames[1].fn = "_parse_time"

Raw == frames[1].args.raw

AssumeAM == frames[1].args.assume_am

ParseResult == frames[1].ret

ClockGiven == ParseCalled /\ Raw \in ClockRaws

ColonPlace == IF Raw[2] = ":" THEN 2 ELSE 3

ClockHour == DigitsValue(SubSeq(Raw, 1, ColonPlace - 1), 0)

ClockMinute == DigitsValue(SubSeq(Raw, ColonPlace + 1, ColonPlace + 2), 0)

ClockMarker == SubSeq(Raw, ColonPlace + 3, Len(Raw))

\* The last two characters of a display string: "AM" or "PM".
PeriodShown(display) == SubSeq(display, Len(display) - 1, Len(display))

(***************************************************************************)
(* C15: for every hour 0..23, minute 0..59, marker and assume_am flag, a   *)
(* successful parse yields hour' * 60 + minute, where with a marker hour   *)
(* 12 becomes 0 and pm adds 12; without a marker under assume-AM hour 12   *)
(* becomes 0 and the others stay, and under assume-PM exactly the hours    *)
(* 1..11 gain 12.  So an unmarked hour 1..11 shows AM under assume-AM and  *)
(* PM under assume-PM, and unmarked 12 is 12:00 AM or 12:00 PM.            *)
(***************************************************************************)
ResolvedHour ==
    IF ClockMarker # <<>>
    THEN (IF ClockHour = 12 THEN 0 ELSE ClockHour)
           + (IF ClockMarker \in {<<"p">>, <<"p", "m">>} THEN 12 ELSE 0)
    ELSE IF AssumeAM
    THEN (IF ClockHour = 12 THEN 0 ELSE ClockHour)
    ELSE (IF ClockHour \in 1..11 THEN ClockHour + 12 ELSE ClockHour)

C15_HourResolution ==
    (ClockGiven /\ ~ParseResult.error) =>
        /\ ParseResult.minutes = Some(ResolvedHour * 60 + ClockMinute)
        /\ (ClockMarker = <<>> /\ ClockHour \in 1..11) =>
               PeriodShown(The(ParseResult.display))
                 = (IF AssumeAM THEN <<"A", "M">> ELSE <<"P", "M">>)
        /\ (ClockMarker = <<>> /\ ClockHour = 12 /\ ClockMinute = 0) =>
               The(ParseResult.display)
                 = (IF AssumeAM THEN <<"1", "2", ":", "0", "0", " ", "A", "M">> ELSE <<"1", "2", ":", "0", "0", " ", "P", "M">>)

(***************************************************************************)
(* C16: parse accepts exactly the strings of the grammar: after trimming   *)
(* and case-folding, a 1-2 digit hour, optionally a colon and 0-2 minute   *)
(* digits, optionally a marker a/p/am/pm (blanks may precede the marker,   *)
(* as in the display form), with hour <= 23 and minute <= 59.  For every   *)
(* other string, such as minute digits not separated from the hour by a    *)
(* colon, it returns (minutes absent, display absent, isError true).       *)
(***************************************************************************)
AllDigits(s) ==
    \A i \in 1..Len(s) : s[i] \in {"0", "1", "2", "3", "4", "5", "6", "7", "8", "9"}

AllBlanks(s) == \A i \in 1..Len(s) : s[i] = " "

\* t is hour digits, then (with a colon) minute digits, then blanks, then a
\* marker, of the given lengths.
GrammarSplit(t, hl, colon, ml, bl, mk) ==
    /\ Len(t) = hl + colon + ml + bl + Len(mk)
    /\ AllDigits(SubSeq(t, 1, hl))
    /\ colon = 1 => t[hl + 1] = ":"
    /\ AllDigits(SubSeq(t, hl + colon + 1, hl + colon + ml))
    /\ AllBlanks(SubSeq(t, hl + colon + ml + 1, hl + colon + ml + bl))
    /\ SubSeq(t, hl + colon + ml + bl + 1, Len(t)) = mk
    /\ DigitsValue(SubSeq(t, 1, hl), 0) <= 23
    /\ DigitsValue(SubSeq(t, hl + colon + 1, hl + colon + ml), 0) <= 59

InGrammar(raw) ==
    \E hl \in 1..2, colon \in 0..1, ml \in 0..2, bl \in 0..Len(raw),
       mk \in PeriodMarkers \cup {<<>>} :
        /\ colon = 0 => ml = 0
        /\ GrammarSplit(Strip(Lower(raw)), hl, colon, ml, bl, mk)

C16_AcceptsExactlyTheGrammar ==
    ParseCalled =>
        /\ InGrammar(Raw) <=> ~ParseResult.error
        /\ ParseResult.error => IsNone(ParseResult.minutes) /\ IsNone(ParseResult.display)

(***************************************************************************)
(* C17: parsing is idempotent through the display form: when parse         *)
(* succeeds with minutes m and display d, parsing d again with assume_am   *)
(* true and with assume_am false both succeed and both yield m.            *)
(***************************************************************************)
Reparsed == Len(frames) = 2 /\ frames[1].fn = "_parse_time" /\ frames[2].fn = "_parse_time"

C17_ReparseOfDisplayKeepsMinutes ==
    Reparsed =>
        /\ ~frames[2].ret.error
        /\ frames[2].ret.minutes = frames[1].ret.minutes

(***************************************************************************)
(* C18: for every minute value m in 0..1439 with m < 720,                  *)
(* parse(format(m), assume_am = true) succeeds with minutes = m.           *)
(***************************************************************************)
FormatCalled == frames # <<>> /\ frames[1].fn = "_minutes_to_display"

Minutes == frames[1].args.minutes

Formatted == frames[1].ret

FormattedThenParsed == FormatCalled /\ Len(frames) = 2 /\ frames[2].fn = "_parse_time"

C18_MorningRoundTrip ==
    (FormattedThenParsed /\ Minutes < 720) =>
        /\ ~frames[2].ret.error
        /\ frames[2].ret.minutes = Some(Minutes)

\* Five past midnight: "12:05 AM", whose hour 12 has to come back as 0.
C18_Witness ==
    /\ FormattedThenParsed
    /\ Minutes = 5
    /\ Formatted = <<"1", "2", ":", "0", "5", " ", "A", "M">>
    /\ frames[2].ret.minutes = Some(5)

(***************************************************************************)
(* C19: format(minutes) depends only on minutes mod 1440: with hour =      *)
(* (minutes div 60) mod 24 and minute = minutes mod 60 it is "H:MM AM"     *)
(* when hour < 12 and "H:MM PM" otherwise, H being hour mod 12 with 0      *)
(* shown as 12 and unpadded, MM the minute padded to two digits; format(0) *)
(* = "12:00 AM", format(720) = "12:00 PM", format(1439) = "11:59 PM", and  *)
(* format(m + 1440) = format(m).                                           *)
(***************************************************************************)
HourOfDay == (Minutes \div 60) % 24

HourShown == IF HourOfDay % 12 = 0 THEN 12 ELSE HourOfDay % 12

FormattedNextDay == FormatCalled /\ Len(frames) = 2 /\ frames[2].fn = "_minutes_to_display"

C19_DisplayShape ==
    FormatCalled =>
        /\ Len(Formatted) = (IF HourShown >= 10 THEN 2 ELSE 1) + 6
        /\ Formatted[1] # "0"
        /\ AllDigits(SubSeq(Formatted, 1, Len(Formatted) - 6))
        /\ DigitsValue(SubSeq(Formatted, 1, Len(Formatted) - 6), 0) = HourShown
        /\ Formatted[Len(Formatted) - 5] = ":"
        /\ AllDigits(SubSeq(Formatted, Len(Formatted) - 4, Len(Formatted) - 3))
        /\ DigitsValue(SubSeq(Formatted, Len(Formatted) - 4, Len(Formatted) - 3), 0)
             = Minutes % 60
        /\ Formatted[Len(Formatted) - 2] = " "
        /\ PeriodShown(Formatted) = (IF HourOfDay < 12 THEN <<"A", "M">> ELSE <<"P", "M">>)
        /\ Minutes = 0 => Formatted = <<"1", "2", ":", "0", "0", " ", "A", "M">>
        /\ Minutes = 720 => Formatted = <<"1", "2", ":", "0", "0", " ", "P", "M">>
        /\ Minutes = 1439 => Formatted = <<"1", "1", ":", "5", "9", " ", "P", "M">>
        /\ FormattedNextDay =>
               /\ frames[2].args.minutes = Minutes + 1440
               /\ frames[2].ret = Formatted

\* The last minute of the second day, and the same minute a day later.
C19_Witness ==
    /\ FormattedNextDay
    /\ Minutes = 1440 + 1439
    /\ Formatted = <<"1", "1", ":", "5", "9", " ", "P", "M">>
    /\ frames[2].ret = <<"1", "1", ":", "5", "9", " ", "P", "M">>

(***************************************************************************)
(* C20: roundToQuarter returns a multiple of 0.25 nearest to its argument  *)
(* and is idempotent, roundToQuarter(roundToQuarter(x)) = roundToQuarter(x) *)
(* for every x, in particular x = minutes / 60 for the minutes a week can  *)
(* produce, negative ones included.  Values are in hundredths of an hour.  *)
(***************************************************************************)
RoundCalled == frames # <<>> /\ frames[1].fn = "_round_to_quarter"

Rounded == frames[1].ret

RoundedTwice == RoundCalled /\ Len(frames) = 2

\* | rounded / 100 - num / den |, times 100 * den
Off(num, den, rounded) ==
    IF rounded * den >= 100 * num THEN rounded * den - 100 * num
    ELSE 100 * num - rounded * den

C20_NearestQuarterIdempotent ==
    RoundCalled =>
        /\ Rounded % 25 = 0
        /\ 8 * Off(frames[1].args.num, frames[1].args.den, Rounded)
             <= 100 * frames[1].args.den
        /\ RoundedTwice => frames[2].ret = Rounded

\* -3/8 of an hour lies halfway between -0.25 and -0.5; it becomes -0.5 and
\* stays -0.5.
C20_Witness ==
    /\ RoundedTwice
    /\ frames[1].args = [num |-> -3, den |-> 8]
    /\ Rounded = -50
    /\ frames[2].ret = -50

(***************************************************************************)
(* What a direct call of _process_day was given and what it returned.      *)
(***************************************************************************)
DayCalled == frames # <<>> /\ frames[1].fn = "_process_day"

TheDay == frames[1].args.day

DayOutcome == frames[1].ret

(***************************************************************************)
(* C21: a day whose start and end are both present and both parse, with    *)
(* end minutes <= start minutes (equality included), yields no worked      *)
(* minutes, exactly one error line "<Day>: end time is before start time"  *)
(* and a field_errors entry on "<Day>_end" only; its lunch is not examined. *)
(***************************************************************************)
C21_EndNotAfterStartIsOneError ==
    (DayCalled /\ EndNotAfterStart(TheDay)) =>
        /\ IsNone(DayOutcome.minutes)
        /\ DayOutcome.errors = <<Msg(TheDay.day_name, "end time is before start time")>>
        /\ DOMAIN DayOutcome.field_errors = {EndKey(TheDay.day_name)}
        /\ DayOutcome.warnings = <<>>

\* 8:00 AM to 8:00 AM with a lunch that is no number: the end is the only
\* thing reported.
C21_Witness ==
    /\ DayCalled
    /\ TimesValid(TheDay) /\ EndMinutes(TheDay) = StartMinutes(TheDay)
    /\ LunchBad(TheDay)
    /\ Len(DayOutcome.errors) = 1
    /\ DOMAIN DayOutcome.field_errors = {EndKey(TheDay.day_name)}

(***************************************************************************)
(* C22: for a day with valid start and end, end after start, duration =    *)
(* end - start and lunch the resolved lunch minutes: when lunch > duration *)
(* the day yields no worked minutes and the error "<Day>: lunch exceeds    *)
(* shift length" tagged on "<Day>_lunch"; otherwise worked minutes =       *)
(* duration - lunch, a lunch equal to the duration giving 0.  Hence no     *)
(* worked minutes, no daily_hours value and no total_hours is negative.    *)
(***************************************************************************)
Duration(d) == EndMinutes(d) - StartMinutes(d)

ShiftGiven(d) == TimesValid(d) /\ ~EndNotAfterStart(d) /\ ~LunchBad(d)

\* The day's part of the claim, given the day's duration, its resolved lunch
\* and the minutes its processing yields.
LunchWithinShift(d, duration, lunch, minutes) ==
    IF lunch > duration
    THEN /\ IsNone(minutes)
         /\ Msg(d.day_name, "lunch exceeds shift length") \in Elements(Result.errors)
         /\ LunchKey(d.day_name) \in DOMAIN Result.field_errors
         /\ Result.field_errors[LunchKey(d.day_name)] = "Lunch exceeds shift length"
    ELSE /\ minutes = Some(duration - lunch)
         /\ ErrorFree =>
                Result.daily_hours[d.day_name] = round_to_quarter(duration - lunch, 60)

\* The same for a day whose start and end have been parsed on their own:
\* it applies when both are there and valid, the end after the start, and
\* the lunch blank or a non-negative integer.
ShiftWithinLunch(d, start, end, minutes) ==
    /\ (/\ ~StartBlank(d) /\ ~EndBlank(d)
        /\ ~start.error /\ ~end.error
        /\ The(end.minutes) > The(start.minutes)
        /\ ~LunchBad(d)) =>
           LunchWithinShift(d, The(end.minutes) - The(start.minutes), LunchOf(d), minutes)
    /\ ~IsNone(minutes) => The(minutes) >= 0

C22_LunchWithinShift ==
    HasResult =>
        /\ \A i \in Days :
               ShiftWithinLunch(days[i], parse_time(Strip(days[i].start_time), TRUE),
                                parse_time(Strip(days[i].end_time), FALSE),
                                DayMinutes(days[i]))
        /\ ErrorFree =>
               /\ \A k \in DOMAIN Result.daily_hours : Result.daily_hours[k] >= 0
               /\ The(Result.total_hours) >= 0

\* Midnight to 8:00 AM with 480 minutes of lunch: nothing worked, no error.
C22_Witness ==
    /\ ErrorFree
    /\ ShiftGiven(days[1])
    /\ LunchOf(days[1]) = Duration(days[1])
    /\ Result.daily_hours[Monday] = 0

\* The other side: a lunch longer than the shift.
C22_WitnessExceeds ==
    /\ HasResult
    /\ ShiftGiven(days[1])
    /\ LunchOf(days[1]) = 600 /\ Duration(days[1]) = 540
    /\ Result.field_errors[LunchKey(Monday)] = "Lunch exceeds shift length"

(***************************************************************************)
(* C23: lunch is validated in every day-completeness case: for any day in  *)
(* which each present time is valid (and the end after the start when both *)
(* are present), be it both blank, start only on a day that is not Friday, *)
(* start only on Friday, end only, or both present, a non-blank lunch that *)
(* is not a non-negative integer yields the error "<Day>: invalid lunch    *)
(* duration", field_errors["<Day>_lunch"] = "Invalid lunch duration" and   *)
(* no worked minutes.                                                      *)
(***************************************************************************)
\* An optional sign and decimal digits, standing for a number that is not
\* below zero.
NonNegativeInteger(t) ==
    \/ t # <<>> /\ AllDigits(t)
    \/ Len(t) > 1 /\ Head(t) = "+" /\ AllDigits(Tail(t))
    \/ Len(t) > 1 /\ Head(t) = "-" /\ AllDigits(Tail(t)) /\ DigitsValue(Tail(t), 0) = 0

LunchNotANumber(d) == ~LunchBlank(d) /\ ~NonNegativeInteger(Strip(d.lunch_minutes))

PresentTimesValid(d) == ~StartBad(d) /\ ~EndBad(d) /\ ~EndNotAfterStart(d)

C23_LunchValidatedInEveryCase ==
    (DayCalled /\ PresentTimesValid(TheDay) /\ LunchNotANumber(TheDay)) =>
        /\ IsNone(DayOutcome.minutes)
        /\ DayOutcome.errors = <<Msg(TheDay.day_name, "invalid lunch duration")>>
        /\ LunchKey(TheDay.day_name) \in DOMAIN DayOutcome.field_errors
        /\ DayOutcome.field_errors[LunchKey(TheDay.day_name)] = "Invalid lunch duration"

\* Friday with a start, no end and a lunch of "1.5".
C23_Witness ==
    /\ DayCalled
    /\ InProgress(TheDay) /\ ~StartBad(TheDay)
    /\ TheDay.lunch_minutes = <<"1", ".", "5">>
    /\ DayOutcome.errors = <<Msg(TheDay.day_name, "invalid lunch duration")>>

\* The case that needs no time at all: a day with only a lunch of "x".
C23_WitnessBlankDay ==
    /\ DayCalled
    /\ StartBlank(TheDay) /\ EndBlank(TheDay)
    /\ TheDay.lunch_minutes = <<"x">>
    /\ DOMAIN DayOutcome.field_errors = {LunchKey(TheDay.day_name)}

(***************************************************************************)
(* C24: a blank lunch gives a warning and no error: for every day with a   *)
(* valid start and a valid end after the start, a blank lunch makes the    *)
(* day use 60 minutes of lunch, adds the warning "<Day>: lunch assumed to  *)
(* be 60 minutes" and no error for that day, so the warning never blocks   *)
(* the week's totals.                                                      *)
(***************************************************************************)
ErrorLinesOf(d) == {p \in 1..Len(Result.errors) : Result.errors[p].day = d.day_name}

\* What the claim says of a day whose lunch is blank, given its duration and
\* the minutes its processing yields.
BlankLunchIsSixty(d, duration, minutes) ==
    /\ Msg(d.day_name, "lunch assumed to be 60 minutes") \in Elements(Result.warnings)
    /\ ErrorLinesOf(d) = {}
    /\ minutes = Some(duration - 60)
    /\ ErrorFree => Result.daily_hours[d.day_name] = round_to_quarter(duration - 60, 60)

\* The days the claim speaks of, their times parsed on their own.
BlankLunchShift(d, start, end) ==
    /\ ~StartBlank(d) /\ ~EndBlank(d) /\ LunchBlank(d)
    /\ ~start.error /\ ~end.error
    /\ The(end.minutes) > The(start.minutes)

BlankLunchNeverErrors(d, start, end, minutes) ==
    BlankLunchShift(d, start, end) =>
        BlankLunchIsSixty(d, The(end.minutes) - The(start.minutes), minutes)

C24_BlankLunchNeverErrors ==
    HasResult =>
        \A i \in Days :
            BlankLunchNeverErrors(days[i], parse_time(Strip(days[i].start_time), TRUE),
                                  parse_time(Strip(days[i].end_time), FALSE),
                                  DayMinutes(days[i]))

\* C24 as the code has it: the same for every such day that lasts at least
\* 60 minutes from start to end.
BlankLunchFitsShift(d, start, end, minutes) ==
    (BlankLunchShift(d, start, end) /\ The(end.minutes) - The(start.minutes) >= 60) =>
        BlankLunchIsSixty(d, The(end.minutes) - The(start.minutes), minutes)

C24_BlankLunchFitsShift ==
    HasResult =>
        \A i \in Days :
            BlankLunchFitsShift(days[i], parse_time(Strip(days[i].start_time), TRUE),
                                parse_time(Strip(days[i].end_time), FALSE),
                                DayMinutes(days[i]))

\* Tuesday 8:00 AM to 5:00 PM with a blank lunch in a week without errors:
\* 8 hours, with the warning beside the totals.
C24_Witness ==
    /\ ErrorFree
    /\ days[2].start_time = EightAM /\ LunchBlank(days[2])
    /\ Msg(Tuesday, "lunch assumed to be 60 minutes") \in Elements(Result.warnings)
    /\ Result.daily_hours[Tuesday] = 800
    /\ ~IsNone(Result.total_hours)

(***************************************************************************)
(* C25: in an error-free week with pre-Friday minutes below 2400, a blank  *)
(* Friday start is taken as 8:00 AM (480 minutes) and adds the warning     *)
(* "Friday start time assumed to be 8:00 AM"; a blank Friday lunch is      *)
(* taken as 60 minutes and the warning "Friday: lunch assumed to be 60     *)
(* minutes" is in the result's warnings exactly once, whether Friday's day *)
(* processing or the projection emitted it first.                          *)
(***************************************************************************)
StartAssumed == Literal("Friday start time assumed to be 8:00 AM")

LunchAssumed == Msg(FridayLiteral, "lunch assumed to be 60 minutes")

Times(seq, x) == Cardinality({p \in 1..Len(seq) : seq[p] = x})

\* The clock-out projected from a start and a lunch, for a week whose
\* Friday has no end.
ProjectedFrom(start_minutes, lunch_minutes) ==
    Some(minutes_to_display((start_minutes + 2400 - PreMinutes + lunch_minutes) % 1440))

C25_FridayDefaultsWarnOnce ==
    (ErrorFree /\ HasFriday /\ PreMinutes < 2400) =>
        /\ StartBlank(TheFriday) =>
               /\ Times(Result.warnings, StartAssumed) = 1
               /\ StartKey(FridayLiteral) \in DOMAIN Result.normalized_times
               /\ Result.normalized_times[StartKey(FridayLiteral)] = EightAM
               /\ EndBlank(TheFriday) => ClockOut = ProjectedFrom(480, LunchOf(TheFriday))
        /\ LunchBlank(TheFriday) =>
               /\ Times(Result.warnings, LunchAssumed) = 1
               /\ EndBlank(TheFriday) => ClockOut = ProjectedFrom(FridayStartOf, 60)

\* Friday in progress with a blank lunch: the day's processing has given the
\* warning before the projection comes to it.
C25_Witness ==
    /\ ErrorFree /\ HasFriday
    /\ PreMinutes < 2400
    /\ TheFriday.day_name = FridayLiteral
    /\ InProgress(TheFriday) /\ LunchBlank(TheFriday)
    /\ Elements(process_day(TheFriday, 8 * 60).warnings) = {LunchAssumed}
    /\ Times(Result.warnings, LunchAssumed) = 1

\* A blank Friday: both warnings come from the projection.
C25_WitnessBlankFriday ==
    /\ ErrorFree /\ HasFriday
    /\ PreMinutes = 1920
    /\ StartBlank(TheFriday) /\ EndBlank(TheFriday) /\ LunchBlank(TheFriday)
    /\ Result.warnings = <<StartAssumed, LunchAssumed>>
    /\ ClockOut = Some(<<"5", ":", "0", "0", " ", "P", "M">>)

(***************************************************************************)
(* C27: every successful parse returns minutes within one day: whenever    *)
(* parse reports no error, 0 <= minutes <= 1439, also for an hour of 13-23 *)
(* (or 0) with a period marker.                                            *)
(***************************************************************************)
C27_ParsedMinutesWithinDay ==
    (ParseCalled /\ ~ParseResult.error) =>
        /\ ~IsNone(ParseResult.minutes)
        /\ The(ParseResult.minutes) >= 0
        /\ The(ParseResult.minutes) <= 1439

C28_WitnessAbove ==
    /\ ErrorFree
    /\ WeekMinutes > 40 * 60
    /\ WeekMinutes % 15 = 8
    /\ The(Result.hours_to_40) < 0

(***************************************************************************)
(* C29: for every week of days with distinct names the error lines and the *)
(* field_errors entries of the result correspond one to one: there are as  *)
(* many lines as entries, every line names a day of the week and that day  *)
(* has as many lines as it has flagged fields, so every line has a key of  *)
(* a field of its own day; errors is empty exactly when field_errors is.   *)
(***************************************************************************)
DistinctNames == \A i, j \in Days : days[i].day_name = days[j].day_name => i = j

ErrorLinesNaming(d) == Cardinality({k \in 1..Len(Result.errors) : Result.errors[k].day = d.day_name})

FlaggedFields(d) == DOMAIN Result.field_errors \cap DayKeys(d)

C29_ErrorsMatchFieldErrors ==
    (HasResult /\ DistinctNames) =>
        /\ Len(Result.errors) = Cardinality(DOMAIN Result.field_errors)
        /\ \A k \in 1..Len(Result.errors) :
               \E i \in Days :
                   /\ Result.errors[k].day = days[i].day_name
                   /\ FlaggedFields(days[i]) # {}
        /\ \A i \in Days : ErrorLinesNaming(days[i]) = Cardinality(FlaggedFields(days[i]))
        /\ (Result.errors = <<>>) <=> (DOMAIN Result.field_errors = {})

\* A week in which one day has both times invalid (two lines, two fields)
\* and another day has an invalid lunch.
C29_Witness ==
    /\ HasResult
    /\ DistinctNames
    /\ \E i \in Days : StartBad(days[i]) /\ EndBad(days[i]) /\ ErrorLinesNaming(days[i]) = 2
    /\ \E i \in Days : LunchBad(days[i]) /\ ErrorLinesNaming(days[i]) = 1
    /\ Len(Result.errors) >= 3

\* What the properties read of the window.
Calculated == window.handled = Handled("_calculate", <<>>)

\* The result calculate_week returns for the rows of the window.
ServiceResult == The(calculate_week(DayInputs(window), 8 * 60).value)

MessageLines == Elements(window.message_label.text)

KpisEmpty ==
    /\ window.total_hours_value.text = <<>>
    /\ window.hours_to_40_value.text = <<>>
    /\ window.friday_value.text = <<>>

(***************************************************************************)
(* C26: the window shows warnings even when errors are present: after      *)
(* Calculate on rows for which the service result has both errors and      *)
(* warnings, the window displays the error lines and also the warning      *)
(* lines, while the KPI labels stay empty.                                 *)
(***************************************************************************)
C26_WarningsShownBesideErrors ==
    (Calculated /\ ServiceResult.errors # <<>> /\ ServiceResult.warnings # <<>>) =>
        /\ Elements(ServiceResult.errors) \subseteq MessageLines
        /\ Elements(ServiceResult.warnings) \subseteq MessageLines
        /\ KpisEmpty

(***************************************************************************)
(* C30: the hours _update_day_hours shows for a row agree with the         *)
(* service: with start and end both non-blank the hours label is non-empty *)
(* exactly when _process_day returns worked minutes for the row, and its   *)
(* text is then the trimmed display of those minutes rounded to the        *)
(* quarter hour; otherwise the label is empty.                             *)
(***************************************************************************)
Updated(d) == window.handled = Handled("_update_day_hours", d)

RowOf(d) == window.entries[d]

RowInput(d) == DayInput(d, RowOf(d).start.text, RowOf(d).end.text, RowOf(d).lunch.text)

BothTimesGiven(d) == ~StartBlank(RowInput(d)) /\ ~EndBlank(RowInput(d))

HoursAgree(hours, minutes) ==
    IF IsNone(minutes) THEN hours = <<>>
    ELSE /\ hours # <<>>
         /\ hours = format_hours_display(round_to_quarter(The(minutes), 60))

C30_RowHoursAgreeWithService ==
    \A d \in AppDayNames :
        (Updated(d) /\ BothTimesGiven(d)) =>
            HoursAgree(RowOf(d).hours.text, process_day(RowInput(d), 8 * 60).minutes)

\* Monday 9:00 AM to 5 with a blank lunch: seven hours shown.
C30_Witness ==
    /\ Updated(Monday)
    /\ BothTimesGiven(Monday)
    /\ LunchBlank(RowInput(Monday))
    /\ process_day(RowInput(Monday), 8 * 60).minutes = Some(420)
    /\ RowOf(Monday).hours.text = <<"7">>
    /\ RowOf(Monday).lunch.border_color = "yellow"

\* A row whose lunch is longer than its shift: nothing shown.
C30_WitnessEmpty ==
    /\ Updated(Monday)
    /\ BothTimesGiven(Monday)
    /\ LunchTooLong(RowInput(Monday))
    /\ RowOf(Monday).hours.text = <<>>

====
